---- MODULE Spec2Model ----
(***************************************************************************)
(* A model of the CFG developer's grammar data model (js/grammar.js) and   *)
(* of its Earley parser (js/grammar_view.js, from "Implementation of the   *)
(* Earley parser" on): Symbol, SymArray, Production, Grammar, State,       *)
(* Context, Earley.doesMatch and getDerivation.                            *)
(*                                                                         *)
(* A JavaScript string is a sequence of one-character strings.  A State    *)
(* object that lives in the chart is referred to by its place, the record  *)
(* [b |-> bucket, s |-> slot]: Context.states[b] only ever grows by push,  *)
(* so a place names one object for the whole run.                          *)
(***************************************************************************)
EXTENDS Integers, Sequences, FiniteSets, TLC

\* Longest input string handed to doesMatch.
MaxInputLen == 3

\* Most States test1 offers to the Context it creates itself.
MaxAddStateCalls == 3

\* Most States a caller offers to a Context when back-pointers into any
\* bucket are allowed.
MaxContextCalls == 4

\* Most doesMatch calls a caller makes in a row with one Earley object.
MaxParses == 3

\* Most user events (keys pressed, strings entered, buttons clicked) on the
\* page.
MaxEvents == 2

\* testCFG.MAX_CACHE_SIZE (grammar_view.js:401) is 50 in the source; the
\* model runs the page with this smaller capacity.
MAX_CACHE_SIZE == 2

\* Earley.DERIVATION_LIMIT (grammar_view.js:774) is 50000 in the source; the
\* model runs getDerivation with this smaller node limit.
DERIVATION_LIMIT == 40

(***************************************************************************)
(* grammar.js: Symbol, SymArray, Production, Grammar                       *)
(***************************************************************************)
Symbol(ch, isTerminal) == [ch |-> ch, isTerminal |-> isTerminal]

SymbolEquals(a, b) == a.ch = b.ch /\ a.isTerminal = b.isTerminal

\* escapeHTML of one character: what a text node's innerHTML gives.
EscapeChar(c) ==
  CASE c = "&" -> <<"&", "a", "m", "p", ";">>
    [] c = "<" -> <<"&", "l", "t", ";">>
    [] c = ">" -> <<"&", "g", "t", ";">>
    [] OTHER -> <<c>>

RECURSIVE escapeHTML(_)
escapeHTML(str) ==
  IF str = <<>> THEN <<>> ELSE EscapeChar(Head(str)) \o escapeHTML(Tail(str))

\* Symbol.prototype.toString(false): the escaped character ('' for the
\* dummy start symbol, whose ch is the empty string).
SymbolToString(sym) == IF sym.ch = "" THEN <<>> ELSE EscapeChar(sym.ch)

SymArrayEquals(a, b) ==
  /\ Len(a) = Len(b)
  /\ \A n \in 1..Len(a) : SymbolEquals(a[n], b[n])

RECURSIVE SymArrayChars(_)
SymArrayChars(symbols) ==
  IF symbols = <<>> THEN <<>>
  ELSE SymbolToString(Head(symbols)) \o SymArrayChars(Tail(symbols))

\* SymArray.prototype.toString(false): the one character U+03B5, written
\* "epsilon" here, for the empty array.
SymArrayToString(symbols) ==
  IF Len(symbols) = 0 THEN <<"epsilon">> ELSE SymArrayChars(symbols)

Production(lhs, rhs) == [lhs |-> lhs, rhs |-> rhs]

rhsContains(production, symArray) ==
  \E n \in 1..Len(production.rhs) : SymArrayEquals(production.rhs[n], symArray)

NoProductions == [c \in {} |-> Production(Symbol(c, FALSE), <<>>)]

Grammar(startSymbol) ==
  [startSymbol |-> startSymbol, productions |-> NoProductions, nonterminals |-> <<>>]

\* The merge loop as it would be if it put an incoming alternative in front
\* of the stored ones.
RECURSIVE MergeRhsInFront(_, _, _)
MergeRhsInFront(currentProduction, rhs, n) ==
  IF n > Len(rhs) THEN currentProduction
  ELSE IF ~rhsContains(currentProduction, rhs[n])
       THEN MergeRhsInFront([currentProduction EXCEPT !.rhs = <<rhs[n]>> \o @],
                            rhs, n + 1)
       ELSE MergeRhsInFront(currentProduction, rhs, n + 1)

\* The loop of addProduction over production.rhs, from index n on.
RECURSIVE MergeRhs(_, _, _)
MergeRhs(currentProduction, rhs, n) ==
  IF n > Len(rhs) THEN currentProduction
  ELSE IF ~rhsContains(currentProduction, rhs[n])
       THEN MergeRhs([currentProduction EXCEPT !.rhs = Append(@, rhs[n])], rhs, n + 1)
       ELSE MergeRhs(currentProduction, rhs, n + 1)

\* addProduction as it would be if it stored the incoming Production in
\* place of the one present instead of merging into it.
addProductionReplacing(g, production) ==
  LET ch == production.lhs.ch IN
  [g EXCEPT
     !.productions = [c \in DOMAIN g.productions \cup {ch} |->
                        IF c = ch THEN production ELSE g.productions[c]],
     !.nonterminals = IF ch \in DOMAIN g.productions THEN @ ELSE Append(@, ch)]

addProduction(g, production) ==
  LET ch == production.lhs.ch IN
  IF ch \in DOMAIN g.productions
  THEN [g EXCEPT !.productions[ch] = MergeRhs(@, production.rhs, 1)]
  ELSE [g EXCEPT
          !.productions = [c \in DOMAIN g.productions \cup {ch} |->
                             IF c = ch THEN production ELSE g.productions[c]],
          !.nonterminals = Append(@, ch)]

(***************************************************************************)
(* grammar_view.js: State                                                  *)
(***************************************************************************)
START_LHS == Symbol("", FALSE)

\* The constructor's check: it throws StateCurrentPositionOutOfBounds.
StateOutOfBounds(symArray, currentPosition) ==
  currentPosition < 0 \/ currentPosition > Len(symArray)

\* A constructed State; id is the value ++State.counter gave it.
State(lhs, symArray, currentPosition, originPosition, prev, id) ==
  [lhs |-> lhs, symArray |-> symArray, currentPosition |-> currentPosition,
   originPosition |-> originPosition, prev |-> prev, counter |-> id]

\* this.lhs === State.START_LHS: the one dummy Symbol object, the only
\* Symbol whose ch is the empty string.
hasStart(state) == state.lhs = START_LHS

isComplete(state) == state.currentPosition = Len(state.symArray)

isCompleteParse(state) == hasStart(state) /\ isComplete(state)

hasNext(state) == state.currentPosition < Len(state.symArray)

\* getNextSymbol, for a state that has one (null otherwise: see hasNext).
getNextSymbol(state) == state.symArray[state.currentPosition + 1]

hasNonterminalNext(state, nonterminal) ==
  hasNext(state) /\ SymbolEquals(nonterminal, getNextSymbol(state))

\* equals as it would be if it left currentPosition out of the comparison.
StateEqualsButForDot(a, b) ==
  /\ SymbolEquals(a.lhs, b.lhs)
  /\ SymArrayEquals(a.symArray, b.symArray)
  /\ a.originPosition = b.originPosition

StateEquals(a, b) ==
  /\ SymbolEquals(a.lhs, b.lhs)
  /\ SymArrayEquals(a.symArray, b.symArray)
  /\ a.currentPosition = b.currentPosition
  /\ a.originPosition = b.originPosition

(***************************************************************************)
(* grammar_view.js: Context.  A context is [input, states]; states maps    *)
(* each index 0..input.length to its Array of States.                      *)
(***************************************************************************)
Context(inp) == [input |-> inp, states |-> [n \in 0..Len(inp) |-> <<>>]]

Deref(ctx, ref) == ctx.states[ref.b][ref.s]

\* The prev of a State constructed without its fifth argument: the value
\* undefined, written as a reference list that names no place of the chart.
\* Reading its length throws a TypeError.
Undefined == << [b |-> -1, s |-> 0] >>

\* prevArraysEqual: same length and the same creation ids, place by place
\* (of two Arrays: on an undefined prev it throws, see containsStateThrows).
prevArraysEqual(ctx, state1, state2) ==
  /\ state1.prev # Undefined /\ state2.prev # Undefined
  /\ Len(state1.prev) = Len(state2.prev)
  /\ \A n \in 1..Len(state1.prev) :
       Deref(ctx, state1.prev[n]).counter = Deref(ctx, state2.prev[n]).counter

\* containsState(states, state, opt_checkprev) over Arrays of references.
containsState(ctx, refs, ref, checkprev) ==
  \E n \in 1..Len(refs) :
    /\ StateEquals(Deref(ctx, refs[n]), Deref(ctx, ref))
    /\ (~checkprev \/ prevArraysEqual(ctx, Deref(ctx, refs[n]), Deref(ctx, ref)))

\* getState as it would be if its loop returned null as soon as the first
\* State of the bucket differed.
getStateOfFirstSlot(ctx, state, inputIndex) ==
  LET bucket == ctx.states[inputIndex]
  IN IF Len(bucket) > 0 /\ StateEquals(bucket[1], state) THEN 1 ELSE 0

\* getState: the slot of the first equal State of the bucket, 0 for null.
getState(ctx, state, inputIndex) ==
  LET bucket == ctx.states[inputIndex]
      equal(n) == StateEquals(bucket[n], state)
  IN IF \E n \in 1..Len(bucket) : equal(n)
     THEN CHOOSE n \in 1..Len(bucket) : equal(n) /\ \A m \in 1..(n - 1) : ~equal(m)
     ELSE 0

\* containsState(states, state, true) throws a TypeError: states is
\* undefined, or the first State of it that equals state is compared by
\* prevArraysEqual while either of the two has an undefined prev.
containsStateThrows(ctx, refs, ref) ==
  \/ refs = Undefined
  \/ \E n \in 1..Len(refs) :
       /\ StateEquals(Deref(ctx, refs[n]), Deref(ctx, ref))
       /\ Deref(ctx, refs[n]).prev = Undefined \/ Deref(ctx, ref).prev = Undefined
       /\ \A m \in 1..(n - 1) :
            ~StateEquals(Deref(ctx, refs[m]), Deref(ctx, ref))
            \/ ~prevArraysEqual(ctx, Deref(ctx, refs[m]), Deref(ctx, ref))

\* The merge loop as it would be if it assigned equalState.prev instead of
\* pushing onto it.
RECURSIVE MergePrevAssigning(_, _, _, _, _, _)
MergePrevAssigning(ctx, inputIndex, slot, prev, n, addedPrev) ==
  IF prev = Undefined
  THEN [ctx |-> ctx, ret |-> addedPrev, error |-> "TypeError"]
  ELSE IF n > Len(prev) THEN [ctx |-> ctx, ret |-> addedPrev, error |-> ""]
  ELSE IF containsStateThrows(ctx, ctx.states[inputIndex][slot].prev, prev[n])
  THEN [ctx |-> ctx, ret |-> addedPrev, error |-> "TypeError"]
  ELSE IF ~containsState(ctx, ctx.states[inputIndex][slot].prev, prev[n], TRUE)
       THEN MergePrevAssigning([ctx EXCEPT !.states[inputIndex][slot].prev = <<prev[n]>>],
                               inputIndex, slot, prev, n + 1, TRUE)
       ELSE MergePrevAssigning(ctx, inputIndex, slot, prev, n + 1, addedPrev)

\* The merge loop as it would be if it set addedPrev for every State of
\* state.prev, pushed or not.
RECURSIVE MergePrevAlwaysAdded(_, _, _, _, _, _)
MergePrevAlwaysAdded(ctx, inputIndex, slot, prev, n, addedPrev) ==
  IF prev = Undefined
  THEN [ctx |-> ctx, ret |-> addedPrev, error |-> "TypeError"]
  ELSE IF n > Len(prev) THEN [ctx |-> ctx, ret |-> addedPrev, error |-> ""]
  ELSE IF containsStateThrows(ctx, ctx.states[inputIndex][slot].prev, prev[n])
  THEN [ctx |-> ctx, ret |-> addedPrev, error |-> "TypeError"]
  ELSE IF ~containsState(ctx, ctx.states[inputIndex][slot].prev, prev[n], TRUE)
       THEN MergePrevAlwaysAdded([ctx EXCEPT !.states[inputIndex][slot].prev = Append(@, prev[n])],
                                 inputIndex, slot, prev, n + 1, TRUE)
       ELSE MergePrevAlwaysAdded(ctx, inputIndex, slot, prev, n + 1, TRUE)

\* The merge loop of addState over state.prev, from index n on; slot is the
\* place of equalState.  Gives [ctx, ret, error].
RECURSIVE MergePrev(_, _, _, _, _, _)
MergePrev(ctx, inputIndex, slot, prev, n, addedPrev) ==
  IF prev = Undefined
  THEN [ctx |-> ctx, ret |-> addedPrev, error |-> "TypeError"]
  ELSE IF n > Len(prev) THEN [ctx |-> ctx, ret |-> addedPrev, error |-> ""]
  ELSE IF containsStateThrows(ctx, ctx.states[inputIndex][slot].prev, prev[n])
  THEN [ctx |-> ctx, ret |-> addedPrev, error |-> "TypeError"]
  ELSE IF ~containsState(ctx, ctx.states[inputIndex][slot].prev, prev[n], TRUE)
       THEN MergePrev([ctx EXCEPT !.states[inputIndex][slot].prev = Append(@, prev[n])],
                      inputIndex, slot, prev, n + 1, TRUE)
       ELSE MergePrev(ctx, inputIndex, slot, prev, n + 1, addedPrev)

\* addState as it would be if the silent case came first and took every
\* index beyond the input.
addStateSilentBeyond(ctx, state, inputIndex) ==
  IF inputIndex >= Len(ctx.input) + 1
  THEN [ctx |-> ctx, ret |-> FALSE, error |-> ""]
  ELSE IF inputIndex < 0
  THEN [ctx |-> ctx, ret |-> FALSE, error |-> "StateInputIndexOutOfBounds"]
  ELSE CHOOSE r \in
         { IF slot = 0
           THEN [ctx |-> [ctx EXCEPT !.states[inputIndex] = Append(@, state)],
                 ret |-> TRUE, error |-> ""]
           ELSE MergePrev(ctx, inputIndex, slot, state.prev, 1, FALSE) :
           slot \in { getState(ctx, state, inputIndex) } } : TRUE

\* Context.prototype.addState.  Gives [ctx, ret, error]: the context after
\* the call, the value returned, and the message thrown ("" for none).
\* equalState is slot, drawn from a singleton set so that it is looked up
\* once.
addState(ctx, state, inputIndex) ==
  IF inputIndex < 0 \/ inputIndex > Len(ctx.input) + 1
  THEN [ctx |-> ctx, ret |-> FALSE, error |-> "StateInputIndexOutOfBounds"]
  ELSE IF inputIndex = Len(ctx.input) + 1
  THEN [ctx |-> ctx, ret |-> FALSE, error |-> ""]
  ELSE CHOOSE r \in
         { IF slot = 0
           THEN [ctx |-> [ctx EXCEPT !.states[inputIndex] = Append(@, state)],
                 ret |-> TRUE, error |-> ""]
           ELSE MergePrev(ctx, inputIndex, slot, state.prev, 1, FALSE) :
           slot \in { getState(ctx, state, inputIndex) } } : TRUE

(***************************************************************************)
(* The callers' inputs: the grammars built (each by a list of              *)
(* addProduction calls on new Grammar(S)) and the strings tested.          *)
(***************************************************************************)
T0 == Symbol("0", TRUE)
T1 == Symbol("1", TRUE)
NS == Symbol("S", FALSE)
NX == Symbol("X", FALSE)

\* grammar_test.js test1: production1, production2, production3.
Test1Script ==
  << Production(NS, << <<T0, NS, T0>>, <<T1, NS, T1>> >>),
     Production(NS, << <<T1, NS, T1>>, <<T0>>, <<T1>> >>),
     Production(NS, << <<T0>>, <<T1>>, <<>> >>) >>

\* grammar_test.js test2: production1, production2.
Test2Script ==
  << Production(NS, << <<T0, NX, NX>> >>),
     Production(NX, << <<>>, <<T1>> >>) >>

\* A family of two-nonterminal grammars S -> a | b with an optional
\* Production for X: left and right recursion, ambiguity, unit rules,
\* epsilon rules, unit and epsilon cycles, and X left without a Production.
RecursiveAlts ==
  { <<NS, T0>>, <<T0, NS>>, <<NS, NS>>, <<NX>>, <<NX, NX>>, <<NX, T1>> }
BaseAlts == { <<>>, <<T0>> }
XProductions ==
  { <<>>,
    << Production(NX, << <<>>, <<T1>> >>) >>,
    << Production(NX, << <<NS>>, <<>> >>) >> }

UsesX(symArray) == \E n \in 1..Len(symArray) : SymbolEquals(symArray[n], NX)

FamilyScripts ==
  { << Production(NS, <<t[1], t[2]>>) >> \o t[3] :
      t \in { u \in RecursiveAlts \X BaseAlts \X XProductions :
                UsesX(u[1]) \/ u[3] = <<>> } }

\* A Grammar whose start symbol has no Production.
NoStartScript == << Production(NX, << <<T1>> >>) >>

\* S -> 1X | 0 with no Production for X: prediction meets X only after a 1
\* has been scanned.
UnreachedScript == << Production(NS, << <<T1, NX>>, <<T0>> >>) >>

\* Productions built with alternatives given twice: S -> 0 | 0, then
\* S -> 1 | 1 | 0 merged into it.
DuplicateScript ==
  << Production(NS, << <<T0>>, <<T0>> >>),
     Production(NS, << <<T1>>, <<T1>>, <<T0>> >>) >>

Scripts ==
  {Test1Script, Test2Script, NoStartScript, UnreachedScript, DuplicateScript}
    \cup FamilyScripts

\* test1's own use of a Context: the input it is created on, the States
\* offered to it (lhs S; a symbol array, a dot and an origin) and the
\* indices they are offered at, in and out of range.
TestContextInput == <<"1">>
TestSymArrays == { <<T0, NS, T0>>, <<T1>> }
TestPositions == {0, 1}
TestIndices == -1..(Len(TestContextInput) + 2)
ContextSymArrays == { <<T0>>, <<T1>> }
ContextPositions == {-1, 0, 2}

\* S -> SS | 0: every string of two or more 0s has several parses.
AmbiguousScript == << Production(NS, << <<NS, NS>>, <<T0>> >>) >>

\* S -> a&, a -> 0: the terminal & is one of the characters escapeHTML
\* rewrites, and the nonterminal a is a letter of what it is rewritten to.
NA == Symbol("a", FALSE)
TAmp == Symbol("&", TRUE)
EntityScript ==
  << Production(NS, << <<NA, TAmp>> >>),
     Production(NA, << <<T0>> >>) >>

\* A caller that parses one string after another with the same Earley
\* object, as test1 does: its grammars and its strings.
SessionScripts == {Test1Script, Test2Script, AmbiguousScript, EntityScript}
SessionInputs == { <<>>, <<"0">>, <<"0", "1">>, <<"0", "0", "0">>, <<"0", "&">> }

InputChars == {"0", "1", "S"}
Inputs == UNION { [1..n -> InputChars] : n \in 0..MaxInputLen }

(***************************************************************************)
(* State of the program                                                    *)
(***************************************************************************)
VARIABLES
  script,          \* the Productions the caller adds, in order
  built,           \* how many of them it has added
  calls,           \* how many States test1 has offered to its own Context
  grammar,         \* the Grammar under construction, then Earley.grammar
  context,         \* doesMatch's context (Earley.currentContext)
  counter,         \* State.counter
  pc,              \* where the caller / doesMatch / getDerivation stands
  i, j, k,         \* doesMatch's loop variables (k: index within a pass)
  len,             \* doesMatch's len, fixed at the start of a pass
  newAddedStates,  \* doesMatch's newAddedStates
  queue, strings,  \* getDerivation's queue of paths and of their strings
  dcounter,        \* getDerivation's counter
  match,           \* what doesMatch returned
  error,           \* the exception thrown out of doesMatch, "" for none
  call,            \* the last addState call made on a Context from outside
  parses,          \* how many doesMatch calls of the caller have returned
  counter0,        \* State.counter when the caller's last call returned
  verdicts,        \* what the caller's doesMatch calls returned, in order
  rows,            \* the page's production rows: nonterminal field, rule fields
  text,            \* the lines of the test strings textarea
  down,            \* the grammar field in which a key is held down
  timers,          \* how many delayed testCFG calls (startTest) are pending
  events,          \* how many user events the page has had
  cache,           \* testCFG.cache (each result with the Grammar it is of)
  cacheQueue,      \* testCFG.cacheQueue
  inserted,        \* the strings of cache in the order they were stored
  line,            \* testCFG's i
  results          \* the rows of the results table

\* What a caller that parses again and again keeps.
session == <<parses, counter0, verdicts>>

\* The web page: its DOM, its timers and testCFG.
page == <<rows, text, down, timers, events, cache, cacheQueue, inserted, line, results>>

\* What belongs to the callers of doesMatch and of addState.
callers == <<call, session, page>>

vars == <<script, built, calls, grammar, context, counter, pc, i, j, k, len, newAddedStates,
          queue, strings, dcounter, match, error, callers>>

NoContext == [input |-> <<>>, states |-> [n \in {} |-> <<>>]]

\* doesMatch's return value: null, or an Array of references to States.
Null == [isNull |-> TRUE, states |-> <<>>]
List(refs) == [isNull |-> FALSE, states |-> refs]

\* testCFG.cache = {}
NoCache == [str \in {} |-> [result |-> Null, grammar |-> Grammar(NS)]]

\* No key is held down in a grammar field.
NoField == <<0, 0>>

\* No web page: the callers are scripts.
NoPage ==
  /\ rows = <<>> /\ text = <<>> /\ down = NoField
  /\ timers = 0 /\ events = 0
  /\ cache = NoCache /\ cacheQueue = <<>> /\ inserted = <<>>
  /\ line = 0 /\ results = <<>>

\* No addState call has been made from outside.
NoCall == [state |-> <<>>, inputIndex |-> -1, ret |-> FALSE]

\* A caller's script begins: a new Grammar(S), nothing parsed yet.
Start ==
  /\ built = 0
  /\ calls = 0
  /\ grammar = Grammar(NS)
  /\ context = NoContext
  /\ counter = 0
  /\ pc = "build"
  /\ i = 0 /\ j = 0 /\ k = 0 /\ len = 0
  /\ newAddedStates = FALSE
  /\ queue = <<>> /\ strings = <<>> /\ dcounter = 0
  /\ match = Null
  /\ error = ""
  /\ call = NoCall
  /\ parses = 0
  /\ counter0 = 0
  /\ verdicts = <<>>
  /\ NoPage

Init == script \in Scripts /\ Start

\* The caller adds its next Production to the Grammar.
AddProduction ==
  /\ pc = "build" /\ built < Len(script)
  /\ grammar' = addProduction(grammar, script[built + 1])
  /\ built' = built + 1
  /\ UNCHANGED <<callers, script, calls, context, counter, pc, i, j, k, len, newAddedStates,
                 queue, strings, dcounter, match, error>>

(***************************************************************************)
(* Earley.prototype.doesMatch.  A run record [ctx, counter, added, error]  *)
(* carries the context, State.counter, whether some addState call of the   *)
(* step returned true, and the exception thrown ("" for none).             *)
(***************************************************************************)
Run(ctx, id) == [ctx |-> ctx, counter |-> id, added |-> FALSE, error |-> ""]

\* The same as it would be if the State constructor left State.counter as
\* it found it.
NewAndAddNotCounting(m, lhs, symArray, currentPosition, originPosition, prev, inputIndex) ==
  IF m.error # "" THEN m
  ELSE IF StateOutOfBounds(symArray, currentPosition)
  THEN [m EXCEPT !.error = "StateCurrentPositionOutOfBounds"]
  ELSE LET id == m.counter IN
       CHOOSE n \in { [ctx |-> r.ctx, counter |-> id,
                       added |-> (m.added \/ r.ret), error |-> r.error] :
                      r \in { addState(m.ctx,
                                       State(lhs, symArray, currentPosition,
                                             originPosition, prev, id),
                                       inputIndex) } } : TRUE

\* The same as it would be if the State constructor counted State.counter
\* down.
NewAndAddCountingDown(m, lhs, symArray, currentPosition, originPosition, prev, inputIndex) ==
  IF m.error # "" THEN m
  ELSE IF StateOutOfBounds(symArray, currentPosition)
  THEN [m EXCEPT !.error = "StateCurrentPositionOutOfBounds"]
  ELSE LET id == m.counter - 1 IN
       CHOOSE n \in { [ctx |-> r.ctx, counter |-> id,
                       added |-> (m.added \/ r.ret), error |-> r.error] :
                      r \in { addState(m.ctx,
                                       State(lhs, symArray, currentPosition,
                                             originPosition, prev, id),
                                       inputIndex) } } : TRUE

\* The same as it would be if the State constructor brought a
\* currentPosition out of range to the nearest one in range.
NewAndAddClamping(m, lhs, symArray, currentPosition, originPosition, prev, inputIndex) ==
  IF m.error # "" THEN m
  ELSE LET id == m.counter + 1
           clamped == IF currentPosition < 0 THEN 0
                      ELSE IF currentPosition > Len(symArray) THEN Len(symArray)
                      ELSE currentPosition
       IN CHOOSE n \in { [ctx |-> r.ctx, counter |-> id,
                          added |-> (m.added \/ r.ret), error |-> r.error] :
                         r \in { addState(m.ctx,
                                          State(lhs, symArray, clamped,
                                                originPosition, prev, id),
                                          inputIndex) } } : TRUE

\* new State(lhs, symArray, currentPosition, originPosition, prev) followed
\* by context.addState(it, inputIndex).
NewAndAdd(m, lhs, symArray, currentPosition, originPosition, prev, inputIndex) ==
  IF m.error # "" THEN m
  ELSE IF StateOutOfBounds(symArray, currentPosition)
  THEN [m EXCEPT !.error = "StateCurrentPositionOutOfBounds"]
  ELSE LET id == m.counter + 1 IN
       CHOOSE n \in { [ctx |-> r.ctx, counter |-> id,
                       added |-> (m.added \/ r.ret), error |-> r.error] :
                      r \in { addState(m.ctx,
                                       State(lhs, symArray, currentPosition,
                                             originPosition, prev, id),
                                       inputIndex) } } : TRUE

\* PREDICTION as it would be if the new State were given no back-pointer.
RECURSIVE PredictLoopWithoutPrev(_, _, _, _, _, _)
PredictLoopWithoutPrev(m, nextSymbol, rhs, ref, pos, l) ==
  IF l > Len(rhs) \/ m.error # "" THEN m
  ELSE CHOOSE r \in { PredictLoopWithoutPrev(after, nextSymbol, rhs, ref, pos, l + 1) :
                      after \in { NewAndAdd(m, nextSymbol, rhs[l], 0, pos,
                                            <<>>, pos) } } : TRUE

\* PREDICTION: the loop over production.rhs, from index l on.  (Here and in
\* COMPLETION the run record after one iteration is drawn from a singleton
\* set, which fixes its value before the next iteration reads it.)
RECURSIVE PredictLoop(_, _, _, _, _, _)
PredictLoop(m, nextSymbol, rhs, ref, pos, l) ==
  IF l > Len(rhs) \/ m.error # "" THEN m
  ELSE CHOOSE r \in { PredictLoop(after, nextSymbol, rhs, ref, pos, l + 1) :
                      after \in { NewAndAdd(m, nextSymbol, rhs[l], 0, pos,
                                            <<ref>>, pos) } } : TRUE

\* getAdvancedState as it would be if it moved the dot by two.
AdvanceAndAddPast(m, t, prev, inputIndex) ==
  NewAndAdd(m, t.lhs, t.symArray, t.currentPosition + 2, t.originPosition,
            prev, inputIndex)

\* State.prototype.getAdvancedState(prev) followed by addState(it, inputIndex).
AdvanceAndAdd(m, t, prev, inputIndex) ==
  NewAndAdd(m, t.lhs, t.symArray, t.currentPosition + 1, t.originPosition,
            prev, inputIndex)

\* COMPLETION as it would be if the loop over searchStates stopped one
\* short of ssLen.
RECURSIVE CompleteLoopOneShort(_, _, _, _, _, _)
CompleteLoopOneShort(m, state, ref, ssLen, pos, l) ==
  IF l > ssLen - 1 \/ m.error # "" THEN m
  ELSE LET t == m.ctx.states[state.originPosition][l] IN
       CHOOSE r \in { CompleteLoopOneShort(after, state, ref, ssLen, pos, l + 1) :
                      after \in { IF hasNonterminalNext(t, state.lhs)
                                  THEN AdvanceAndAdd(m, t, <<ref>>, pos)
                                  ELSE m } } : TRUE

\* COMPLETION as it would be if a State that began at the current position
\* (an empty match) completed nothing.
RECURSIVE CompleteLoopButForEmpty(_, _, _, _, _, _)
CompleteLoopButForEmpty(m, state, ref, ssLen, pos, l) ==
  IF l > ssLen \/ m.error # "" \/ state.originPosition = pos THEN m
  ELSE LET t == m.ctx.states[state.originPosition][l] IN
       CHOOSE r \in { CompleteLoopButForEmpty(after, state, ref, ssLen, pos, l + 1) :
                      after \in { IF hasNonterminalNext(t, state.lhs)
                                  THEN AdvanceAndAdd(m, t, <<ref>>, pos)
                                  ELSE m } } : TRUE

\* COMPLETION as it would be if the loop over searchStates were left after
\* the first State advanced.
RECURSIVE CompleteLoopFirstOnly(_, _, _, _, _, _)
CompleteLoopFirstOnly(m, state, ref, ssLen, pos, l) ==
  IF l > ssLen \/ m.error # "" THEN m
  ELSE LET t == m.ctx.states[state.originPosition][l] IN
       IF hasNonterminalNext(t, state.lhs)
       THEN AdvanceAndAdd(m, t, <<ref>>, pos)
       ELSE CompleteLoopFirstOnly(m, state, ref, ssLen, pos, l + 1)

\* COMPLETION: the loop over searchStates, from index l on; ssLen is the
\* length read before the loop.
RECURSIVE CompleteLoop(_, _, _, _, _, _)
CompleteLoop(m, state, ref, ssLen, pos, l) ==
  IF l > ssLen \/ m.error # "" THEN m
  ELSE LET t == m.ctx.states[state.originPosition][l] IN
       CHOOSE r \in { CompleteLoop(after, state, ref, ssLen, pos, l + 1) :
                      after \in { IF hasNonterminalNext(t, state.lhs)
                                  THEN AdvanceAndAdd(m, t, <<ref>>, pos)
                                  ELSE m } } : TRUE

\* The start of doesMatch: a new Context with the very first State in it.
Seed(inp) ==
  /\ LET m == NewAndAdd(Run(Context(inp), counter), START_LHS,
                        <<grammar.startSymbol>>, 0, 0, <<>>, 0)
     IN /\ context' = m.ctx
        /\ counter' = m.counter
  /\ i' = 0
  /\ pc' = "for_i"

DoesMatch(inp) ==
  /\ pc = "build" /\ built = Len(script)
  /\ Seed(inp)
  /\ UNCHANGED <<callers, script, built, calls, grammar, j, k, len, newAddedStates, queue, strings,
                 dcounter, match, error>>

\* for (var i = 0; i <= input.length; i++)
ForI ==
  /\ pc = "for_i"
  /\ IF i <= Len(context.input)
     THEN j' = 0 /\ pc' = "for_j"
     ELSE j' = j /\ pc' = "check"
  /\ UNCHANGED <<callers, script, built, calls, grammar, context, counter, i, k, len, newAddedStates,
                 queue, strings, dcounter, match, error>>

\* for (var j = 0; j < states.length; j++), states.length read live
ForJ ==
  /\ pc = "for_j"
  /\ IF j < Len(context.states[i])
     THEN newAddedStates' = TRUE /\ i' = i /\ pc' = "while"
     ELSE newAddedStates' = newAddedStates /\ i' = i + 1 /\ pc' = "for_i"
  /\ UNCHANGED <<callers, script, built, calls, grammar, context, counter, j, k, len,
                 queue, strings, dcounter, match, error>>

\* while (newAddedStates): start a pass over states[0..len-1], or leave
While ==
  /\ pc = "while"
  /\ IF newAddedStates
     THEN /\ newAddedStates' = FALSE
          /\ len' = Len(context.states[i])
          /\ k' = 0
          /\ pc' = "for_k"
     ELSE /\ pc' = "scan"
          /\ UNCHANGED <<newAddedStates, len, k>>
  /\ UNCHANGED <<callers, script, built, calls, grammar, context, counter, i, j,
                 queue, strings, dcounter, match, error>>

\* The state examined by the pass, and the reference [state] to it.
Examined == context.states[i][k + 1]
ExaminedRef == [b |-> i, s |-> k + 1]

predicts(state) == hasNext(state) /\ ~getNextSymbol(state).isTerminal

\* The end of one iteration of for (var k = 0; k < len; k++).
Examine(m) ==
  /\ context' = m.ctx
  /\ counter' = m.counter
  /\ newAddedStates' = (newAddedStates \/ m.added)
  /\ error' = m.error
  /\ k' = k + 1
  /\ pc' = IF m.error # "" THEN "thrown"
           ELSE IF k + 1 < len THEN "for_k" ELSE "while"
  /\ UNCHANGED <<callers, script, built, calls, grammar, i, j, len, queue, strings, dcounter, match>>

Prediction ==
  /\ pc = "for_k"
  /\ predicts(Examined)
  /\ getNextSymbol(Examined).ch \in DOMAIN grammar.productions
  /\ LET nextSymbol == getNextSymbol(Examined)
         production == grammar.productions[nextSymbol.ch]
     IN \E m \in { PredictLoop(Run(context, counter), nextSymbol,
                                production.rhs, ExaminedRef, i, 1) } :
          Examine(m)

\* this.grammar.productions[nextSymbol.ch] is undefined: reading its rhs
\* throws a TypeError out of doesMatch.
PredictionOfUndefined ==
  /\ pc = "for_k"
  /\ predicts(Examined)
  /\ getNextSymbol(Examined).ch \notin DOMAIN grammar.productions
  /\ error' = "TypeError"
  /\ pc' = "thrown"
  /\ UNCHANGED <<callers, script, built, calls, grammar, context, counter, i, j, k, len,
                 newAddedStates, queue, strings, dcounter, match>>

Completion ==
  /\ pc = "for_k"
  /\ ~predicts(Examined)
  /\ isComplete(Examined)
  /\ \E m \in { CompleteLoop(Run(context, counter), Examined, ExaminedRef,
                              Len(context.states[Examined.originPosition]),
                              i, 1) } :
       Examine(m)

\* The next symbol is a terminal: the pass leaves the state alone.
TerminalNext ==
  /\ pc = "for_k"
  /\ ~predicts(Examined)
  /\ ~isComplete(Examined)
  /\ Examine(Run(context, counter))

\* SCANNING as it would be if the advanced State were added at i.
ScanningInPlace ==
  /\ pc = "scan"
  /\ LET state == context.states[i][j + 1]
         m == IF /\ hasNext(state)
                 /\ getNextSymbol(state).isTerminal
                 /\ i < Len(context.input)
                 /\ context.input[i + 1] = getNextSymbol(state).ch
              THEN AdvanceAndAdd(Run(context, counter), state,
                                 << [b |-> i, s |-> j + 1] >>, i)
              ELSE Run(context, counter)
     IN /\ context' = m.ctx
        /\ counter' = m.counter
        /\ error' = m.error
        /\ pc' = IF m.error # "" THEN "thrown" ELSE "for_j"
  /\ j' = j + 1
  /\ UNCHANGED <<callers, script, built, calls, grammar, i, k, len, newAddedStates,
                 queue, strings, dcounter, match>>

\* SCANNING of states[j]; input[i] is undefined at i = input.length.
Scanning ==
  /\ pc = "scan"
  /\ LET state == context.states[i][j + 1]
         m == IF /\ hasNext(state)
                 /\ getNextSymbol(state).isTerminal
                 /\ i < Len(context.input)
                 /\ context.input[i + 1] = getNextSymbol(state).ch
              THEN AdvanceAndAdd(Run(context, counter), state,
                                 << [b |-> i, s |-> j + 1] >>, i + 1)
              ELSE Run(context, counter)
     IN /\ context' = m.ctx
        /\ counter' = m.counter
        /\ error' = m.error
        /\ pc' = IF m.error # "" THEN "thrown" ELSE "for_j"
  /\ j' = j + 1
  /\ UNCHANGED <<callers, script, built, calls, grammar, i, k, len, newAddedStates,
                 queue, strings, dcounter, match>>

(***************************************************************************)
(* test1: a Context of its own, and States added to it one by one          *)
(***************************************************************************)
\* var context1 = new Context(...)
NewContext ==
  /\ pc = "build" /\ built = Len(script) /\ script = Test1Script
  /\ context' = Context(TestContextInput)
  /\ pc' = "context"
  /\ UNCHANGED <<callers, script, built, calls, grammar, counter, i, j, k, len,
                 newAddedStates, queue, strings, dcounter, match, error>>

\* The prev of a State offered to the Context: an empty Array, nothing at
\* all (test1 leaves the argument out), or one State of bucket 0.
TestPrevs(ctx) ==
  { <<>>, Undefined } \cup { << [b |-> 0, s |-> n] >> : n \in 1..Len(ctx.states[0]) }

\* context1.addState(new State(lhs, symArray, currentPosition, 0, prev), index)
AddStateCall(symArray, currentPosition, inputIndex) ==
  /\ pc = "context" /\ calls < MaxAddStateCalls
  /\ \E prev \in TestPrevs(context) :
       LET m == NewAndAdd(Run(context, counter), NS, symArray, currentPosition,
                          0, prev, inputIndex)
       IN /\ context' = m.ctx
          /\ counter' = m.counter
          /\ newAddedStates' = m.added
          /\ error' = m.error
          /\ pc' = IF m.error # "" THEN "context_thrown" ELSE "context"
  /\ calls' = calls + 1
  /\ UNCHANGED <<callers, script, built, grammar, i, j, k, len, queue, strings,
                 dcounter, match>>

\* The prev of a State a caller offers: an empty Array or one State of the
\* chart, whichever bucket it is in.
ChartPrevs(ctx) ==
  { <<>> } \cup UNION { { << [b |-> b, s |-> n] >> : n \in 1..Len(ctx.states[b]) } :
                        b \in DOMAIN ctx.states }

\* What an addState call from outside leaves behind.
Called(m, state, inputIndex) ==
  /\ context' = m.ctx
  /\ counter' = m.counter
  /\ newAddedStates' = m.added
  /\ error' = m.error
  /\ pc' = IF m.error # "" THEN "context_thrown" ELSE "context"
  /\ call' = [state |-> state, inputIndex |-> inputIndex, ret |-> m.added]
  /\ calls' = calls + 1
  /\ UNCHANGED <<session, page, script, built, grammar, i, j, k, len, queue, strings,
                 dcounter, match>>

\* context1.addState(new State(lhs, symArray, currentPosition, 0, prev),
\* inputIndex); the State asked for and what came back is kept in call.
AddStateOf(symArray, currentPosition, inputIndex) ==
  /\ pc = "context" /\ calls < MaxContextCalls
  /\ \E prev \in ChartPrevs(context) :
       \E m \in { NewAndAdd(Run(context, counter), NS, symArray, currentPosition,
                            0, prev, inputIndex) } :
         Called(m, State(NS, symArray, currentPosition, 0, prev, m.counter),
                inputIndex)

\* context1.addState(t.getAdvancedState([t]), inputIndex) for a State t of
\* the chart.
AdvanceOf(ref, inputIndex) ==
  /\ pc = "context" /\ calls < MaxContextCalls
  /\ LET t == Deref(context, ref) IN
       \E m \in { AdvanceAndAdd(Run(context, counter), t, <<ref>>, inputIndex) } :
         Called(m, State(t.lhs, t.symArray, t.currentPosition + 1,
                         t.originPosition, <<ref>>, m.counter),
                inputIndex)

(***************************************************************************)
(* getDerivation and replaceLastNonterminalStr                             *)
(***************************************************************************)
\* String.prototype.lastIndexOf: the greatest 0-based index at which pat
\* occurs in str, -1 for none (str.length for the empty pat).
lastIndexOf(str, pat) ==
  LET at == {n \in 0..(Len(str) - Len(pat)) :
               SubSeq(str, n + 1, n + Len(pat)) = pat}
  IN IF at = {} THEN -1 ELSE CHOOSE n \in at : \A m \in at : m <= n

replaceLastNonterminalStr(symString, lhsString, insertString) ==
  LET n == lastIndexOf(symString, lhsString) IN
  IF n = -1 THEN symString
  ELSE SubSeq(symString, 1, n) \o insertString
         \o SubSeq(symString, n + 2, Len(symString))

\* replaceLastNonterminal: the Symbols of insertArray in place of the last
\* nonterminal Symbol of symArray that equals lhs; symArray itself when
\* there is none.
replaceLastNonterminal(symArray, lhs, insertArray) ==
  LET at == {n \in 1..Len(symArray) :
               ~symArray[n].isTerminal /\ SymbolEquals(symArray[n], lhs)}
  IN IF at = {} THEN symArray
     ELSE LET n == CHOOSE n \in at : \A m \in at : m <= n IN
          SubSeq(symArray, 1, n - 1) \o insertArray
            \o SubSeq(symArray, n + 1, Len(symArray))

\* The same without the special case for the empty alternative: the
\* epsilon character of toString is inserted.
NewSymStringKeepingEpsilon(currentSymString, newState) ==
  IF newState.currentPosition = Len(newState.symArray)
  THEN replaceLastNonterminalStr(
         currentSymString, SymbolToString(newState.lhs),
         SymArrayToString(newState.symArray))
  ELSE currentSymString

\* The string a path's string becomes when newState is appended to it.
NewSymString(currentSymString, newState) ==
  IF newState.currentPosition = Len(newState.symArray)
  THEN replaceLastNonterminalStr(
         currentSymString, SymbolToString(newState.lhs),
         IF Len(newState.symArray) = 0 THEN <<>>
         ELSE SymArrayToString(newState.symArray))
  ELSE currentSymString

\* The loop over currentState.prev as it would be if it returned states,
\* the path dequeued, in place of newStates.
RECURSIVE ExpandLoopReturningStates(_, _, _, _, _, _)
ExpandLoopReturningStates(ctx, d, states, currentSymString, prev, n) ==
  IF n > Len(prev) \/ d.returned THEN d
  ELSE LET newState == Deref(ctx, prev[n])
           newStates == Append(states, prev[n])
           newSymString == NewSymString(currentSymString, newState)
       IN IF newSymString = escapeHTML(ctx.input)
          THEN [d EXCEPT !.returned = TRUE, !.result = states]
          ELSE LET e == [d EXCEPT !.queue = Append(@, newStates),
                                  !.strings = Append(@, newSymString),
                                  !.counter = @ + 1]
               IN IF e.counter > DERIVATION_LIMIT
                  THEN [e EXCEPT !.returned = TRUE, !.result = <<>>]
                  ELSE ExpandLoopReturningStates(ctx, e, states, currentSymString,
                                                 prev, n + 1)

\* The loop over currentState.prev as it would be if it gave up when the
\* counter reached the limit (>= for >).
RECURSIVE ExpandLoopLimitInclusive(_, _, _, _, _, _)
ExpandLoopLimitInclusive(ctx, d, states, currentSymString, prev, n) ==
  IF n > Len(prev) \/ d.returned THEN d
  ELSE LET newState == Deref(ctx, prev[n])
           newStates == Append(states, prev[n])
           newSymString == NewSymString(currentSymString, newState)
       IN IF newSymString = escapeHTML(ctx.input)
          THEN [d EXCEPT !.returned = TRUE, !.result = newStates]
          ELSE LET e == [d EXCEPT !.queue = Append(@, newStates),
                                  !.strings = Append(@, newSymString),
                                  !.counter = @ + 1]
               IN IF e.counter >= DERIVATION_LIMIT
                  THEN [e EXCEPT !.returned = TRUE, !.result = <<>>]
                  ELSE ExpandLoopLimitInclusive(ctx, e, states, currentSymString,
                                                prev, n + 1)

\* The loop over currentState.prev, from index n on.  d is
\* [queue, strings, counter, returned, result].
RECURSIVE ExpandLoop(_, _, _, _, _, _)
ExpandLoop(ctx, d, states, currentSymString, prev, n) ==
  IF n > Len(prev) \/ d.returned THEN d
  ELSE LET newState == Deref(ctx, prev[n])
           newStates == Append(states, prev[n])
           newSymString == NewSymString(currentSymString, newState)
       IN IF newSymString = escapeHTML(ctx.input)
          THEN [d EXCEPT !.returned = TRUE, !.result = newStates]
          ELSE LET e == [d EXCEPT !.queue = Append(@, newStates),
                                  !.strings = Append(@, newSymString),
                                  !.counter = @ + 1]
               IN IF e.counter > DERIVATION_LIMIT
                  THEN [e EXCEPT !.returned = TRUE, !.result = <<>>]
                  ELSE ExpandLoop(ctx, e, states, currentSymString, prev, n + 1)

\* The slot of the first complete parse State of states[input.length], 0
\* when there is none.
FirstCompleteParse(ctx) ==
  LET checkStates == ctx.states[Len(ctx.input)]
      hits == {n \in 1..Len(checkStates) : isCompleteParse(checkStates[n])}
  IN IF hits = {} THEN 0 ELSE CHOOSE n \in hits : \A m \in hits : n <= m

\* The match check as it would be if match were not a fresh variable of the
\* call: with no complete parse it keeps what the call before left in it.
MatchCheckKeepingMatch ==
  /\ pc = "check"
  /\ LET slot == FirstCompleteParse(context) IN
     IF slot = 0
     THEN /\ match' = match
          /\ pc' = "done"
          /\ UNCHANGED <<queue, strings, dcounter>>
     ELSE /\ queue' = << << [b |-> Len(context.input), s |-> slot] >> >>
          /\ strings' = << SymArrayToString(
                             context.states[Len(context.input)][slot].symArray) >>
          /\ dcounter' = 0
          /\ pc' = "derive"
          /\ match' = match
  /\ UNCHANGED <<callers, script, built, calls, grammar, context, counter, i, j, k, len,
                 newAddedStates, error>>

\* The search for a match after the main loop; on a match getDerivation
\* starts: queue = [[match]], strings = [match.symArray.toString(false)].
MatchCheck ==
  /\ pc = "check"
  /\ LET slot == FirstCompleteParse(context) IN
     IF slot = 0
     THEN /\ match' = Null
          /\ pc' = "done"
          /\ UNCHANGED <<queue, strings, dcounter>>
     ELSE /\ queue' = << << [b |-> Len(context.input), s |-> slot] >> >>
          /\ strings' = << SymArrayToString(
                             context.states[Len(context.input)][slot].symArray) >>
          /\ dcounter' = 0
          /\ pc' = "derive"
          /\ match' = match
  /\ UNCHANGED <<callers, script, built, calls, grammar, context, counter, i, j, k, len,
                 newAddedStates, error>>

\* One turn of getDerivation's while loop: a path is dequeued and extended
\* by each of its last State's prev; doesMatch returns what it returns.
Derive ==
  /\ pc = "derive"
  /\ IF queue = <<>>
     THEN /\ match' = List(<<>>)
          /\ pc' = "done"
          /\ UNCHANGED <<queue, strings, dcounter>>
     ELSE LET states == Head(queue)
              currentState == Deref(context, states[Len(states)])
              d == ExpandLoop(context,
                              [queue |-> Tail(queue), strings |-> Tail(strings),
                               counter |-> dcounter, returned |-> FALSE,
                               result |-> <<>>],
                              states, Head(strings), currentState.prev, 1)
          IN /\ queue' = d.queue
             /\ strings' = d.strings
             /\ dcounter' = d.counter
             /\ match' = IF d.returned THEN List(d.result) ELSE match
             /\ pc' = IF d.returned THEN "done" ELSE "derive"
  /\ UNCHANGED <<callers, script, built, calls, grammar, context, counter, i, j, k, len,
                 newAddedStates, error>>

Next ==
  \/ AddProduction
  \/ NewContext
  \/ \E symArray \in TestSymArrays, currentPosition \in TestPositions,
        inputIndex \in TestIndices :
       AddStateCall(symArray, currentPosition, inputIndex)
  \/ \E inp \in Inputs : DoesMatch(inp)
  \/ ForI
  \/ ForJ
  \/ While
  \/ Prediction
  \/ PredictionOfUndefined
  \/ Completion
  \/ TerminalNext
  \/ Scanning
  \/ MatchCheck
  \/ Derive

Spec == Init /\ [][Next]_vars

\* The script runs to completion: a statement that can be executed is.
FairSpec == Spec /\ WF_vars(Next)

\* console.log(earley1.doesMatch(inp)), once more.
Parse(inp) ==
  /\ parses < MaxParses
  /\ DoesMatch(inp)

\* doesMatch has returned to the caller, its locals are gone; State.counter
\* and earley1.currentContext stay as the call left them.
Return ==
  /\ pc = "done"
  /\ pc' = "build"
  /\ parses' = parses + 1
  /\ verdicts' = Append(verdicts, [input |-> context.input, counter0 |-> counter0,
                                    isMatch |-> ~match.isNull])
  /\ counter0' = counter
  /\ i' = 0 /\ j' = 0 /\ k' = 0 /\ len' = 0
  /\ newAddedStates' = FALSE
  /\ queue' = <<>> /\ strings' = <<>> /\ dcounter' = 0
  /\ UNCHANGED <<call, page, script, built, calls, grammar, context, counter, match, error>>

SessionInit == script \in SessionScripts /\ Start

SessionNext ==
  \/ AddProduction
  \/ \E inp \in SessionInputs : Parse(inp)
  \/ ForI
  \/ ForJ
  \/ While
  \/ Prediction
  \/ Completion
  \/ TerminalNext
  \/ Scanning
  \/ MatchCheck
  \/ Derive
  \/ Return

SessionSpec == SessionInit /\ [][SessionNext]_vars

\* A caller with a Context of its own, as test1 has: the grammar is built,
\* the Context created, and States are offered to it.
ContextInit == Init /\ script = Test1Script

ContextNext ==
  \/ AddProduction
  \/ NewContext
  \/ \E symArray \in ContextSymArrays, currentPosition \in ContextPositions,
        inputIndex \in TestIndices :
       AddStateOf(symArray, currentPosition, inputIndex)
  \/ \E b \in DOMAIN context.states, inputIndex \in DOMAIN context.states :
       \E n \in 1..Len(context.states[b]) :
         AdvanceOf([b |-> b, s |-> n], inputIndex)

ContextSpec == ContextInit /\ [][ContextNext]_vars

(***************************************************************************)
(* grammar_view.js: the web page.  A string is a sequence of characters;   *)
(* a grammar field is named <<row, 0>> (the nonterminal field) or          *)
(* <<row, n>> (the n-th rule field); the caret of a field is kept at the   *)
(* end of its value.                                                       *)
(***************************************************************************)
Row(nt, rules) == [nt |-> nt, rules |-> rules]

\* newProduction(true): the read-only start symbol S and one rule field.
StartRow == Row(<<"S">>, << <<>> >>)

\* newProduction(false): an empty nonterminal field and one rule field.
NewRow == Row(<<>>, << <<>> >>)

\* exampleGrammar: S -> T+T, T -> 1 | 2 | 3 | 4 and its five test strings.
ExampleRows ==
  << Row(<<"S">>, << <<"T", "+", "T">> >>),
     Row(<<"T">>, << <<"1">>, <<"2">>, <<"3">>, <<"4">> >>) >>
ExampleText ==
  << <<"1", "+", "2">>, <<"4", "+", "2">>, <<>>, <<"2", "+", "5">>,
     <<"3", "+", "3">> >>

\* S -> epsilon | SX, X -> 0S | XS typed into two rows.
LeftRecursiveRows ==
  << Row(<<"S">>, << <<>>, <<"S", "X">> >>),
     Row(<<"X">>, << <<"0", "S">>, <<"X", "S">> >>) >>

\* The grammar on the page when the run begins: the page as loaded,
\* S -> SS | 0 typed in, or the two rows above.
PageRows ==
  { <<StartRow>>, << Row(<<"S">>, << <<"S", "S">>, <<"0">> >>) >>,
    LeftRecursiveRows }

\* Two test strings that name properties of Object.prototype.
ToStringName == <<"t", "o", "S", "t", "r", "i", "n", "g">>
ConstructorName == <<"c", "o", "n", "s", "t", "r", "u", "c", "t", "o", "r">>

\* What the user leaves in the test strings textarea, split into lines.
TestTexts ==
  { << <<"0">>, <<>>, <<"0">>, <<"0", "0">> >>,
    << <<"0", "0", "0">> >>,
    << <<"0">>, ToStringName, <<"0", "0">>, ConstructorName >> }

\* The keys pressed in a grammar field: a character key (the pipe typed
\* with a key other than key 220, or pasted), Shift+220, Backspace, Enter.
KeyChars == {"0", "|"}
Keys == KeyChars \cup {"Pipe", "Backspace", "Enter"}

Fields(rs) ==
  UNION { { <<r, f>> : f \in 0..Len(rs[r].rules) } : r \in 1..Len(rs) }

Value(rs, input) ==
  IF input[2] = 0 THEN rs[input[1]].nt ELSE rs[input[1]].rules[input[2]]

SetValue(rs, input, v) ==
  IF input[2] = 0 THEN [rs EXCEPT ![input[1]].nt = v]
  ELSE [rs EXCEPT ![input[1]].rules[input[2]] = v]

InsertAfter(seq, n, v) == SubSeq(seq, 1, n) \o <<v>> \o SubSeq(seq, n + 1, Len(seq))
RemoveAt(seq, n) == SubSeq(seq, 1, n - 1) \o SubSeq(seq, n + 1, Len(seq))

\* The browser's default action for a character key: the character goes
\* in at the caret.  The start symbol's field is read-only, and a
\* nonterminal field has maxlength 1.
TypeChar(rs, input, ch) ==
  IF input[2] = 0
  THEN IF input[1] = 1 \/ Len(rs[input[1]].nt) >= 1 THEN rs
       ELSE SetValue(rs, input, <<ch>>)
  ELSE SetValue(rs, input, Append(Value(rs, input), ch))

\* The browser's default action for Backspace: the character before the
\* caret goes.
DeleteChar(rs, input) ==
  IF (input[2] = 0 /\ input[1] = 1) \/ Value(rs, input) = <<>> THEN rs
  ELSE SetValue(rs, input, SubSeq(Value(rs, input), 1, Len(Value(rs, input)) - 1))

\* newRule(base): a rule field after base, taking what is right of the
\* caret (nothing).
newRule(rs, base) ==
  [rs EXCEPT ![base[1]].rules = InsertAfter(@, base[2], <<>>)]

\* handlePrBackspace(input): the field is merged into the one before it,
\* unless it is the first rule field of its row.
handlePrBackspace(rs, input) ==
  IF input[2] = 1 THEN rs
  ELSE [rs EXCEPT ![input[1]].rules =
          RemoveAt([@ EXCEPT ![input[2] - 1] = @ \o Value(rs, input)], input[2])]

\* handlePrInput after handleCommonInput has cleared the cache: the rows
\* after the handler and the default action, and the field that has the
\* focus then.
handlePrInput(rs, input, key) ==
  CASE key = "Enter" -> [rows |-> Append(rs, NewRow), focus |-> input]
    [] key = "Backspace" ->
         IF Value(rs, input) = <<>>
         THEN [rows |-> handlePrBackspace(rs, input),
               focus |-> IF input[2] = 1 THEN input ELSE <<input[1], input[2] - 1>>]
         ELSE [rows |-> DeleteChar(rs, input), focus |-> input]
    [] key = "Pipe" -> [rows |-> newRule(rs, input),
                        focus |-> <<input[1], input[2] + 1>>]
    [] OTHER -> [rows |-> TypeChar(rs, input, key), focus |-> input]

\* handleNtInput, likewise.
handleNtInput(rs, input, key) ==
  CASE key = "Enter" -> [rows |-> Append(rs, NewRow), focus |-> input]
    [] key = "Backspace" -> [rows |-> DeleteChar(rs, input), focus |-> input]
    [] key = "Pipe" -> [rows |-> rs, focus |-> input]
    [] OTHER -> [rows |-> TypeChar(rs, input, key), focus |-> input]

NotPipe(c) == c # "|"

\* input.value.replace(/\|/g, '')
StripPipes(str) == SelectSeq(str, NotPipe)

\* The same as it would be if only the first row, the start symbol's, were
\* gathered.
NonterminalsOfFirstRow(rs) == { rs[1].nt[1] }

\* readGrammar: the characters that some row has as its nonterminal.
Nonterminals(rs) ==
  { rs[r].nt[1] : r \in { q \in 1..Len(rs) : rs[q].nt # <<>> } }

\* A Symbol for each character of a rule field's string.
SymbolsOf(str, nonterminals) ==
  [n \in 1..Len(str) |-> Symbol(str[n], str[n] \notin nonterminals)]

\* Production.prototype.addArray
addArray(production, symArray) ==
  IF ~rhsContains(production, symArray)
  THEN [production EXCEPT !.rhs = Append(@, symArray)]
  ELSE production

\* readGrammar: the loop over the rule fields of a row, from field f on.
RECURSIVE ReadRules(_, _, _, _)
ReadRules(production, rules, nonterminals, f) ==
  IF f > Len(rules) THEN production
  ELSE ReadRules(addArray(production, SymbolsOf(rules[f], nonterminals)),
                 rules, nonterminals, f + 1)

\* readGrammar: the second pass over the rows, from row r on.
RECURSIVE ReadRows(_, _, _, _)
ReadRows(g, rs, nonterminals, r) ==
  IF r > Len(rs) THEN g
  ELSE IF rs[r].nt = <<>> THEN ReadRows(g, rs, nonterminals, r + 1)
  ELSE ReadRows(addProduction(g, ReadRules(Production(Symbol(rs[r].nt[1], FALSE), <<>>),
                                           rs[r].rules, nonterminals, 1)),
                rs, nonterminals, r + 1)

readGrammar(rs) ==
  ReadRows(Grammar(Symbol(rs[1].nt[1], FALSE)), rs, Nonterminals(rs), 1)

\* What the page's handlers leave alone of Earley, of getDerivation and of
\* the scripts.
parser == <<script, built, calls, grammar, context, counter, i, j, k, len,
            newAddedStates, queue, strings, dcounter, match, error>>

\* clearCache()
clearCache ==
  /\ cache' = NoCache
  /\ cacheQueue' = <<>>
  /\ inserted' = <<>>

\* keydown in a grammar field: handleCommonInput clears the cache, the
\* handler and the browser's default action change the rows.
KeyDown(input, key) ==
  /\ pc = "idle" /\ down = NoField /\ events < MaxEvents
  /\ clearCache
  /\ LET after == IF input[2] = 0 THEN handleNtInput(rows, input, key)
                  ELSE handlePrInput(rows, input, key)
     IN /\ rows' = after.rows
        /\ down' = after.focus
  /\ events' = events + 1
  /\ UNCHANGED <<call, session, parser, pc, text, timers, line, results>>

\* keyup in a grammar field: handleKeyup strips the pipes of the field and
\* starts a delayed test.
KeyUp ==
  /\ pc = "idle" /\ down # NoField
  /\ rows' = SetValue(rows, down, StripPipes(Value(rows, down)))
  /\ down' = NoField
  /\ timers' = timers + 1
  /\ UNCHANGED <<call, session, parser, pc, text, events, cache, cacheQueue,
                 inserted, line, results>>

\* Click on New Production: newProduction(false).
NewProductionClick ==
  /\ pc = "idle" /\ events < MaxEvents
  /\ rows' = Append(rows, NewRow)
  /\ events' = events + 1
  /\ UNCHANGED <<call, session, parser, pc, text, down, timers, cache, cacheQueue,
                 inserted, line, results>>

\* Click on the remove button of row r (every row but the first has one).
RemoveRow(r) ==
  /\ pc = "idle" /\ events < MaxEvents
  /\ clearCache
  /\ rows' = RemoveAt(rows, r)
  /\ down' = IF down[1] = r THEN NoField
             ELSE IF down[1] > r THEN <<down[1] - 1, down[2]>> ELSE down
  /\ timers' = timers + 1
  /\ events' = events + 1
  /\ UNCHANGED <<call, session, parser, pc, text, line, results>>

\* resetGrammar, confirmed.
Reset ==
  /\ pc = "idle" /\ events < MaxEvents
  /\ rows' = <<StartRow>>
  /\ clearCache
  /\ down' = NoField
  /\ timers' = timers + 1
  /\ events' = events + 1
  /\ UNCHANGED <<call, session, parser, pc, text, line, results>>

\* exampleGrammar, confirmed.
Example ==
  /\ pc = "idle" /\ events < MaxEvents
  /\ rows' = ExampleRows
  /\ text' = ExampleText
  /\ clearCache
  /\ down' = NoField
  /\ timers' = timers + 1
  /\ events' = events + 1
  /\ UNCHANGED <<call, session, parser, pc, line, results>>

\* The start of testCFG: the table is emptied and the grammar read.
testCFGStart ==
  /\ results' = <<>>
  /\ grammar' = readGrammar(rows)
  /\ line' = 0
  /\ pc' = "line"
  /\ error' = ""
  /\ UNCHANGED <<call, session, script, built, calls, context, counter, i, j, k,
                 len, newAddedStates, queue, strings, dcounter, match>>

\* A delayed test (startTest) comes due.
Timer ==
  /\ pc = "idle" /\ timers > 0
  /\ timers' = timers - 1
  /\ testCFGStart
  /\ UNCHANGED <<rows, text, down, events, cache, cacheQueue, inserted>>

\* keyup in the test strings textarea, whose value the key has changed:
\* testCFG is called at once.
KeyUpTest(val) ==
  /\ pc = "idle" /\ down = NoField /\ events < MaxEvents
  /\ text' = val
  /\ events' = events + 1
  /\ testCFGStart
  /\ UNCHANGED <<rows, down, timers, cache, cacheQueue, inserted>>

\* The row as it would be if isMatch were taken from the length of the
\* list.
ResultRowConflating(str, matchState, cached, of) ==
  LET isMatch == ~matchState.isNull /\ Len(matchState.states) # 0 IN
  [str |-> escapeHTML(str),
   isMatch |-> IF isMatch THEN "Yes" ELSE "No",
   derivation |-> isMatch /\ Len(matchState.states) # 0,
   matchState |-> matchState, cached |-> cached, of |-> of]

\* The row of the results table for str: the string, Yes or No, whether a
\* derivation row follows it; and, for the properties, the result itself,
\* whether it came from the cache and the Grammar it was computed with.
ResultRow(str, matchState, cached, of) ==
  LET isMatch == ~matchState.isNull IN
  [str |-> escapeHTML(str),
   isMatch |-> IF isMatch THEN "Yes" ELSE "No",
   derivation |-> isMatch /\ Len(matchState.states) # 0,
   matchState |-> matchState, cached |-> cached, of |-> of]

\* formatDerivation: the loop over the complete States from index n on; a
\* row is the Production applied and the sentential form it leaves.
RECURSIVE FormatRows(_, _, _)
FormatRows(states, symArray, n) ==
  IF n > Len(states) THEN <<>>
  ELSE LET next == replaceLastNonterminal(symArray, states[n].lhs,
                                          states[n].symArray) IN
       << [production |-> Production(states[n].lhs, <<states[n].symArray>>),
           symArray |-> next] >>
         \o FormatRows(states, next, n + 1)

\* formatDerivation(matchStates): the rows of the derivation table.  The
\* first row is the literal Start and S; the form rewritten is the
\* right-hand side of the first complete State.
formatDerivation(matchStates) ==
  LET states == SelectSeq(matchStates, isComplete) IN
  << [production |-> Production(START_LHS, <<>>),
      symArray |-> <<Symbol("S", FALSE)>>] >>
    \o FormatRows(states, states[1].symArray, 2)

\* cacheQueue.indexOf(str), 0-based, -1 for none.
indexOf(seq, str) ==
  IF \E n \in 1..Len(seq) : seq[n] = str
  THEN (CHOOSE n \in 1..Len(seq) : seq[n] = str /\ \A m \in 1..(n - 1) : seq[m] # str) - 1
  ELSE -1

\* cacheQueue.splice(index, 1): a negative index counts from the end.
splice1(seq, index) ==
  IF seq = <<>> THEN seq
  ELSE IF index < 0 THEN RemoveAt(seq, Len(seq) + index + 1)
  ELSE RemoveAt(seq, index + 1)

\* testCFG.cache is an object literal: testCFG.cache[str] of a string that
\* is not a key of its own is the property of that name that the object
\* inherits from Object.prototype, a function; the model has two of them,
\* each with its length (Object.prototype.toString.length is 0,
\* Object.length is 1).
ObjectPrototype ==
  [name \in {ToStringName, ConstructorName} |->
     IF name = ToStringName THEN 0 ELSE 1]

\* The value of such a property, as testCFG's matchState.
Inherited(name) ==
  [isNull |-> FALSE, length |-> ObjectPrototype[name], property |-> name]

\* The row of the results table for it: isMatch = !!matchState is true; with
\* length 0 no derivation is shown, otherwise getDerivationRow throws before
\* a derivation row is appended.
InheritedRow(str, matchState) ==
  [str |-> escapeHTML(str), isMatch |-> "Yes", derivation |-> FALSE,
   matchState |-> matchState, cached |-> TRUE, of |-> grammar]

\* testCFG: strings[i] is in the cache; it moves to the end of the queue.
CacheHit ==
  /\ pc = "line" /\ line < Len(text)
  /\ text[line + 1] \in DOMAIN cache
  /\ LET str == text[line + 1] IN
       /\ cacheQueue' = Append(splice1(cacheQueue, indexOf(cacheQueue, str)), str)
       /\ results' = Append(results, ResultRow(str, cache[str].result, TRUE,
                                               cache[str].grammar))
  /\ line' = line + 1
  /\ UNCHANGED <<call, session, parser, pc, rows, text, down, timers, events,
                 cache, inserted>>

\* testCFG: testCFG.cache[str] is an inherited property, so not undefined:
\* the else branch runs with indexOf giving -1, and splice(-1, 1) takes the
\* last string out of the queue.  When matchState.length is not 0,
\* formatDerivation reads matchStates[0].currentPosition of undefined: a
\* TypeError ends testCFG before State.counter = 0.
CacheHitInherited ==
  /\ pc = "line" /\ line < Len(text)
  /\ text[line + 1] \notin DOMAIN cache
  /\ text[line + 1] \in DOMAIN ObjectPrototype
  /\ LET str == text[line + 1]
         matchState == Inherited(str)
     IN /\ cacheQueue' = Append(splice1(cacheQueue, indexOf(cacheQueue, str)), str)
        /\ results' = Append(results, InheritedRow(str, matchState))
        /\ IF matchState.length # 0
           THEN /\ error' = "TypeError"
                /\ pc' = "idle"
                /\ context' = NoContext
                /\ match' = Null
                /\ line' = line
           ELSE /\ line' = line + 1
                /\ UNCHANGED <<pc, context, match, error>>
  /\ UNCHANGED <<call, session, script, built, calls, grammar, counter, i, j, k,
                 len, newAddedStates, queue, strings, dcounter, rows, text, down,
                 timers, events, cache, inserted>>

\* testCFG: strings[i] is not in the cache; earley.doesMatch(str) begins.
CacheMiss ==
  /\ pc = "line" /\ line < Len(text)
  /\ text[line + 1] \notin DOMAIN cache
  /\ text[line + 1] \notin DOMAIN ObjectPrototype
  /\ Seed(text[line + 1])
  /\ UNCHANGED <<callers, script, built, calls, grammar, j, k, len, newAddedStates,
                 queue, strings, dcounter, match, error>>

\* testCFG: the result is stored, and when the queue has grown beyond
\* MAX_CACHE_SIZE the string at its front is evicted.
Stored(str, matchState) ==
  LET entry == [result |-> matchState, grammar |-> grammar]
      stored == [s \in DOMAIN cache \cup {str} |-> IF s = str THEN entry ELSE cache[s]]
      pushed == Append(cacheQueue, str)
      Kept(s) == s # Head(pushed)
  IN IF Len(pushed) > MAX_CACHE_SIZE
     THEN [cache |-> [s \in DOMAIN stored \ {Head(pushed)} |-> stored[s]],
           cacheQueue |-> Tail(pushed),
           inserted |-> SelectSeq(Append(inserted, str), Kept)]
     ELSE [cache |-> stored, cacheQueue |-> pushed, inserted |-> Append(inserted, str)]

\* testCFG: doesMatch has returned; the result is stored and reported.
Store ==
  /\ pc = "done"
  /\ LET str == text[line + 1] IN
       /\ \E after \in { Stored(str, match) } :
            /\ cache' = after.cache
            /\ cacheQueue' = after.cacheQueue
            /\ inserted' = after.inserted
       /\ results' = Append(results, ResultRow(str, match, FALSE, grammar))
  /\ line' = line + 1
  /\ pc' = "line"
  /\ i' = 0 /\ j' = 0 /\ k' = 0 /\ len' = 0
  /\ newAddedStates' = FALSE
  /\ queue' = <<>> /\ strings' = <<>> /\ dcounter' = 0
  /\ UNCHANGED <<call, session, script, built, calls, grammar, context, counter,
                 match, error, rows, text, down, timers, events>>

\* testCFG: every string is done; State.counter = 0, and earley and
\* matchState are gone with the call.
LineEnd ==
  /\ pc = "line" /\ line >= Len(text)
  /\ counter' = 0
  /\ context' = NoContext
  /\ match' = Null
  /\ pc' = "idle"
  /\ UNCHANGED <<callers, script, built, calls, grammar, i, j, k, len,
                 newAddedStates, queue, strings, dcounter, error>>

\* The page once initializeGrammarDOM has run and the user has entered a
\* grammar.
PageInit ==
  /\ script = <<>> /\ built = 0 /\ calls = 0
  /\ grammar = Grammar(NS)
  /\ context = NoContext
  /\ counter = 0
  /\ pc = "idle"
  /\ i = 0 /\ j = 0 /\ k = 0 /\ len = 0
  /\ newAddedStates = FALSE
  /\ queue = <<>> /\ strings = <<>> /\ dcounter = 0
  /\ match = Null
  /\ error = ""
  /\ call = NoCall
  /\ parses = 0 /\ counter0 = 0 /\ verdicts = <<>>
  /\ rows \in PageRows
  /\ text = << <<>> >>
  /\ down = NoField
  /\ timers = 0 /\ events = 0
  /\ cache = NoCache /\ cacheQueue = <<>> /\ inserted = <<>>
  /\ line = 0 /\ results = <<>>

\* The events of the page and the steps of testCFG.  (readGrammar gives
\* every nonterminal a Production, so no prediction looks one up in vain.)
PageNext ==
  \/ \E input \in Fields(rows), key \in Keys : KeyDown(input, key)
  \/ KeyUp
  \/ NewProductionClick
  \/ \E r \in 2..Len(rows) : RemoveRow(r)
  \/ Reset
  \/ Example
  \/ Timer
  \/ \E val \in TestTexts : KeyUpTest(val)
  \/ CacheHit
  \/ CacheHitInherited
  \/ CacheMiss
  \/ Store
  \/ LineEnd
  \/ ForI
  \/ ForJ
  \/ While
  \/ Prediction
  \/ Completion
  \/ TerminalNext
  \/ Scanning
  \/ MatchCheck
  \/ Derive

PageSpec == PageInit /\ [][PageNext]_vars

(***************************************************************************)
(* What the properties below speak of                                      *)
(***************************************************************************)
Returned == pc = "done"
Finished == pc \in {"done", "thrown"}
Input == context.input

\* The States of the Array doesMatch returned.
Derivation == [n \in 1..Len(match.states) |-> Deref(context, match.states[n])]
HasDerivation == Returned /\ ~match.isNull /\ match.states # <<>>

\* Every nonterminal on a right-hand side has a Production; the start
\* symbol is one of them, being the right-hand side of the seed State.
Defined(g, sym) == sym.isTerminal \/ sym.ch \in DOMAIN g.productions
WellDefined(g) ==
  /\ Defined(g, g.startSymbol)
  /\ \A c \in DOMAIN g.productions :
       \A n \in 1..Len(g.productions[c].rhs) :
         \A q \in 1..Len(g.productions[c].rhs[n]) :
           Defined(g, g.productions[c].rhs[n][q])

\* Derivability, defined on the grammar alone: D holds the triples
\* <<A, a, b>> for which nonterminal A derives inp[a+1..b]; it is the least
\* set closed under the productions.
RECURSIVE AltDerives(_, _, _, _, _, _)
AltDerives(D, inp, alt, q, a, b) ==
  IF q > Len(alt) THEN a = b
  ELSE IF alt[q].isTerminal
  THEN a < b /\ inp[a + 1] = alt[q].ch /\ AltDerives(D, inp, alt, q + 1, a + 1, b)
  ELSE \E c \in a..b :
         <<alt[q].ch, a, c>> \in D /\ AltDerives(D, inp, alt, q + 1, c, b)

DerivesStep(g, inp, D) ==
  D \cup { t \in (DOMAIN g.productions) \X (0..Len(inp)) \X (0..Len(inp)) :
             /\ t[2] <= t[3]
             /\ \E n \in 1..Len(g.productions[t[1]].rhs) :
                  AltDerives(D, inp, g.productions[t[1]].rhs[n], 1, t[2], t[3]) }

RECURSIVE DerivesFix(_, _, _)
DerivesFix(g, inp, D) ==
  LET E == DerivesStep(g, inp, D) IN IF E = D THEN D ELSE DerivesFix(g, inp, E)

Derivable(g, inp) ==
  AltDerives(DerivesFix(g, inp, {}), inp, <<g.startSymbol>>, 1, 0, Len(inp))

RECURSIVE Reverse(_)
Reverse(str) == IF str = <<>> THEN <<>> ELSE Append(Reverse(Tail(str)), Head(str))

IsPalindrome01(str) ==
  /\ \A n \in 1..Len(str) : str[n] \in {"0", "1"}
  /\ str = Reverse(str)

\* The rule applications of a list of States: [lhs, symArray] of each
\* complete State after the first element, in list order.
RECURSIVE RulesFrom(_, _)
RulesFrom(list, n) ==
  IF n > Len(list) THEN <<>>
  ELSE (IF isComplete(list[n])
        THEN << [lhs |-> list[n].lhs, symArray |-> list[n].symArray] >>
        ELSE <<>>) \o RulesFrom(list, n + 1)

\* The last place of nonterminal lhs in a sentential form, 0 for none.
LastOccurrence(form, lhs) ==
  LET at == {n \in 1..Len(form) : SymbolEquals(form[n], lhs)}
  IN IF at = {} THEN 0 ELSE CHOOSE n \in at : \A m \in at : m <= n

\* Rewrites a sentential form by the rules from index n on, each at the
\* last occurrence of its lhs; a rule whose lhs does not occur rewrites
\* nothing, as in replaceLastNonterminalStr.
RECURSIVE Rewrite(_, _, _)
Rewrite(form, rules, n) ==
  IF n > Len(rules) THEN form
  ELSE LET at == LastOccurrence(form, rules[n].lhs) IN
       IF at = 0 THEN Rewrite(form, rules, n + 1)
       ELSE Rewrite(SubSeq(form, 1, at - 1) \o rules[n].symArray
                      \o SubSeq(form, at + 1, Len(form)),
                    rules, n + 1)

Chars(form) == [n \in 1..Len(form) |-> form[n].ch]

(***************************************************************************)
(* Properties                                                              *)
(***************************************************************************)

\* C1: for a grammar whose right-hand-side nonterminals (the start symbol
\* among them) all have a Production, doesMatch returns, and what it returns
\* is non-null exactly when the input is derivable from the start symbol.
C1_MatchIffDerivable ==
  (Finished /\ WellDefined(grammar)) =>
    (Returned /\ (~match.isNull <=> Derivable(grammar, Input)))

\* A derivable string of full length was matched by a left-recursive grammar.
C1_Witness ==
  /\ Returned /\ ~match.isNull
  /\ Len(Input) = MaxInputLen
  /\ script = << Production(NS, << <<NS, T0>>, <<>> >>) >>

\* C2: for the palindrome grammar built by test1's three addProduction
\* calls, doesMatch returns non-null exactly for the palindromes over
\* {0, 1}, the empty string included, and null for every other string.
C2_Palindromes ==
  (Finished /\ script = Test1Script) =>
    (Returned /\ (~match.isNull <=> IsPalindrome01(Input)))

\* "101" was matched by the merged grammar S -> 0S0 | 1S1 | 0 | 1 | epsilon.
C2_Witness ==
  /\ Returned /\ script = Test1Script /\ ~match.isNull
  /\ Input = <<"1", "0", "1">>
  /\ grammar.productions["S"].rhs =
       << <<T0, NS, T0>>, <<T1, NS, T1>>, <<T0>>, <<T1>>, <<>> >>

\* C3: for S -> 0XX, X -> epsilon | 1, doesMatch('01') and doesMatch('0')
\* return a match.
C3_EpsilonAlternative ==
  (Finished /\ script = Test2Script /\ Input \in {<<"0", "1">>, <<"0">>}) =>
    (Returned /\ ~match.isNull)

\* '0' was matched: both X took the empty alternative.
C3_Witness ==
  Returned /\ script = Test2Script /\ Input = <<"0">> /\ ~match.isNull

\* C4 as claimed: for S -> 0XX, X -> epsilon | 1, doesMatch('011') returns
\* null.
C4_Original ==
  (Finished /\ script = Test2Script /\ Input = <<"0", "1", "1">>) =>
    (Returned /\ match.isNull)

\* C4 as amended: for S -> 0XX, X -> epsilon | 1, doesMatch('011') returns a
\* match (both X take 1), and the strings matched are exactly '0', '01' and
\* '011'.
C4_TwoSlots ==
  (Finished /\ script = Test2Script) =>
    (Returned /\ (~match.isNull <=>
                    Input \in {<<"0">>, <<"0", "1">>, <<"0", "1", "1">>}))

\* '011' was matched.
C4_Witness ==
  Returned /\ script = Test2Script /\ Input = <<"0", "1", "1">> /\ ~match.isNull

\* C5: for S -> 0XX, X -> epsilon | 1 and input '01', doesMatch returns a
\* non-empty list whose complete States after the augmented-start State are,
\* in order, S -> 0XX, X -> epsilon, X -> 1.
C5_DerivationOf01 ==
  (Finished /\ script = Test2Script /\ Input = <<"0", "1">>) =>
    /\ HasDerivation
    /\ isCompleteParse(Derivation[1])
    /\ RulesFrom(Derivation, 2) =
         << [lhs |-> NS, symArray |-> <<T0, NX, NX>>],
            [lhs |-> NX, symArray |-> <<>>],
            [lhs |-> NX, symArray |-> <<T1>>] >>

\* The derivation of '01' was returned.
C5_Witness ==
  HasDerivation /\ script = Test2Script /\ Input = <<"0", "1">>

C7_EndsAtSeed ==
  HasDerivation =>
    /\ isCompleteParse(Derivation[1])
    /\ LET last == Derivation[Len(Derivation)] IN
         /\ hasStart(last)
         /\ last.currentPosition = 0
         /\ last.originPosition = 0
         /\ last.prev = <<>>

\* Two States agree on lhs, alternative, dot position and origin position.
SameItem(s1, s2) ==
  /\ s1.lhs = s2.lhs
  /\ s1.symArray = s2.symArray
  /\ s1.currentPosition = s2.currentPosition
  /\ s1.originPosition = s2.originPosition

\* C8: after any sequence of addState calls, and in every state of a
\* doesMatch run, no chart bucket holds two States that agree on lhs,
\* alternative, dot position and origin position.
C8_NoEqualStatesInBucket ==
  \A b \in DOMAIN context.states :
    \A m, n \in 1..Len(context.states[b]) :
      m # n => ~SameItem(context.states[b][m], context.states[b][n])

\* test1's Context was offered two States and holds one: the second, equal
\* to the first, was merged into it.
C8_Witness ==
  /\ pc = "context" /\ calls = 2 /\ counter = 2
  /\ Len(context.states[0]) = 1
  /\ context.states[0][1].counter = 1
  /\ context.states[0][1].prev = << [b |-> 0, s |-> 1] >>

\* The State in a slot before a step is the State in it after: same lhs,
\* alternative, dot, origin and creation id, its former prev a prefix of
\* its prev now.
SlotKept(old, new) ==
  /\ SameItem(old, new)
  /\ old.counter = new.counter
  /\ Len(old.prev) <= Len(new.prev)
  /\ SubSeq(new.prev, 1, Len(old.prev)) = old.prev

\* C9: once a Context exists, a step never removes or replaces a State of
\* the chart: each stays in its bucket slot with its lhs, alternative, dot,
\* origin and creation id, and every back-pointer it held is still there in
\* the same order; a merge only appends to prev.
C9_MergeAppendOnly ==
  [][pc # "build" =>
       \A b \in DOMAIN context.states :
         \A n \in 1..Len(context.states[b]) :
           /\ n <= Len(context'.states[b])
           /\ SlotKept(context.states[b][n], context'.states[b][n])]_vars

\* A doesMatch run has ended with a State of the chart that holds two
\* back-pointers: it was created with one, a merge appended the other.
C9_Witness ==
  /\ Returned
  /\ \E b \in DOMAIN context.states :
       \E n \in 1..Len(context.states[b]) :
         Len(context.states[b][n].prev) >= 2

\* The size of the chart: its States and their back-pointers.
ChartSize(ctx) ==
  Cardinality(UNION { UNION { { <<b, n, q>> : q \in 0..Len(ctx.states[b][n].prev) } :
                              n \in 1..Len(ctx.states[b]) } :
                      b \in DOMAIN ctx.states })

\* C10: under a grammar whose nonterminals are all defined doesMatch, at
\* whatever position its main loop stands, eventually returns; the closure
\* loop at a position is left (for SCANNING) only after a pass in which no
\* addState call returned true; and a step of a pass asks for another pass
\* only when it has made the chart larger.
C10_Terminates ==
  /\ (pc = "for_i" /\ WellDefined(grammar)) ~> Returned
  /\ [](pc = "scan" => ~newAddedStates)
  /\ [][(pc = "for_k" /\ ~newAddedStates /\ newAddedStates')
          => ChartSize(context') > ChartSize(context)]_vars

\* doesMatch has returned under S -> X | epsilon, X -> S | epsilon (a unit
\* cycle through epsilon-producing nonterminals) on the longest input.
C10_Witness ==
  /\ Returned
  /\ Len(Input) = MaxInputLen
  /\ "X" \in DOMAIN grammar.productions
  /\ rhsContains(grammar.productions["S"], <<NX>>)
  /\ rhsContains(grammar.productions["S"], <<>>)
  /\ rhsContains(grammar.productions["X"], <<NS>>)
  /\ rhsContains(grammar.productions["X"], <<>>)

\* C12: under a grammar whose nonterminals are all defined, whatever the
\* input (empty, or with characters the grammar does not have), doesMatch
\* throws nothing - not the State constructor's dot-range message, not
\* addState's index-range message - and what it returns is null, an empty
\* list or a list of States of the chart.
C12_NoError ==
  (WellDefined(grammar) /\ pc \notin {"build", "context", "context_thrown"}) =>
    /\ pc # "thrown"
    /\ error = ""
    /\ Returned =>
         \/ match = Null
         \/ match = List(<<>>)
         \/ /\ ~match.isNull
            /\ \A n \in 1..Len(match.states) :
                 /\ match.states[n].b \in DOMAIN context.states
                 /\ match.states[n].s \in 1..Len(context.states[match.states[n].b])

\* doesMatch returned null for an input of characters that occur nowhere in
\* test2's grammar.
C12_Witness ==
  /\ Returned /\ script = Test2Script
  /\ Input = <<"S", "S", "S">>
  /\ match = Null /\ error = ""

\* Some right-hand side of the grammar names a nonterminal that has no
\* Production.
HasUndefinedReference(g) ==
  \E c \in DOMAIN g.productions :
    \E n \in 1..Len(g.productions[c].rhs) :
      \E q \in 1..Len(g.productions[c].rhs[n]) :
        ~Defined(g, g.productions[c].rhs[n][q])

\* C14 as claimed: under a grammar with a right-hand side that names a
\* nonterminal without a Production, doesMatch never returns null (a silent
\* NoMatch).
C14_NoSilentNoMatch ==
  (Returned /\ HasUndefinedReference(grammar)) => ~match.isNull

\* The nonterminals of the Productions s[1..n], each once, in the order in
\* which they first occur.
RECURSIVE FirstInsertions(_, _)
FirstInsertions(s, n) ==
  IF n = 0 THEN <<>>
  ELSE LET before == FirstInsertions(s, n - 1)
           ch == s[n].lhs.ch
       IN IF \E q \in 1..Len(before) : before[q] = ch
          THEN before ELSE Append(before, ch)

\* Some alternative of rhs is structurally equal to symArray.
InRhs(rhs, symArray) == \E q \in 1..Len(rhs) : SymArrayEquals(rhs[q], symArray)

\* C18: addProduction for a nonterminal that has a Production keeps the
\* stored alternatives in place and in order, appends the incoming
\* alternatives that equal no stored one and nothing else, leaves the
\* Productions of the other nonterminals and the start symbol alone, and
\* the display-order list names each nonterminal once, in order of first
\* insertion.
C18_MergeFrame ==
  [][(pc = "build" /\ built' = built + 1) =>
       LET production == script[built + 1]
           ch == production.lhs.ch
       IN /\ grammar'.nonterminals = FirstInsertions(script, built')
          /\ grammar'.startSymbol = grammar.startSymbol
          /\ \A c \in DOMAIN grammar.productions \ {ch} :
               /\ c \in DOMAIN grammar'.productions
               /\ grammar'.productions[c] = grammar.productions[c]
          /\ DOMAIN grammar'.productions = DOMAIN grammar.productions \cup {ch}
          /\ ch \in DOMAIN grammar.productions =>
               LET old == grammar.productions[ch].rhs
                   new == grammar'.productions[ch].rhs
               IN /\ grammar'.productions[ch].lhs = grammar.productions[ch].lhs
                  /\ Len(new) >= Len(old)
                  /\ SubSeq(new, 1, Len(old)) = old
                  /\ \A n \in (Len(old) + 1)..Len(new) :
                       /\ InRhs(production.rhs, new[n])
                       /\ ~InRhs(old, new[n])
                  /\ \A q \in 1..Len(production.rhs) :
                       ~InRhs(old, production.rhs[q]) =>
                         InRhs(SubSeq(new, Len(old) + 1, Len(new)),
                               production.rhs[q])
     ]_vars

\* test1's three Productions for S have been merged: 0S0 | 1S1 | 0 | 1 |
\* epsilon, the repeated alternatives stored once.
C18_Witness ==
  /\ script = Test1Script /\ built = 3
  /\ grammar.nonterminals = <<"S">>
  /\ grammar.productions["S"].rhs =
       << <<T0, NS, T0>>, <<T1, NS, T1>>, <<T0>>, <<T1>>, <<>> >>

\* C17 as claimed: no Production stored in the Grammar has two structurally
\* equal alternatives.
C17_NoEqualAlternatives ==
  \A c \in DOMAIN grammar.productions :
    \A n, q \in 1..Len(grammar.productions[c].rhs) :
      SymArrayEquals(grammar.productions[c].rhs[n], grammar.productions[c].rhs[q])
        => n = q

\* The creation ids of the States a prev lists.
PrevIds(ctx, prev) == { Deref(ctx, prev[n]).counter : n \in 1..Len(prev) }

\* C20 as claimed: an addState call within the input that returns either
\* appends the State to a bucket holding no structurally equal entry and
\* returns true, or appends to the equal entry's prev exactly the
\* back-pointers of state.prev whose creation id it does not list yet, each
\* once, and returns true iff it appended one; the rest of the chart is
\* unchanged.
C20_AddStateContract ==
  [][(pc = "context" /\ pc' = "context" /\ calls' = calls + 1
        /\ call'.inputIndex \in DOMAIN context.states) =>
       LET state == call'.state
           index == call'.inputIndex
           bucket == context.states[index]
           slot == getState(context, state, index)
       IN IF slot = 0
          THEN /\ context' = [context EXCEPT !.states[index] = Append(@, state)]
               /\ call'.ret
          ELSE LET old == bucket[slot].prev
                   new == context'.states[index][slot].prev
                   fresh == PrevIds(context, state.prev) \ PrevIds(context, old)
                   appended == SubSeq(new, Len(old) + 1, Len(new))
               IN /\ context' = [context EXCEPT !.states[index][slot].prev = new]
                  /\ Len(new) >= Len(old)
                  /\ SubSeq(new, 1, Len(old)) = old
                  /\ PrevIds(context, appended) = fresh
                  /\ Len(appended) = Cardinality(fresh)
                  /\ call'.ret <=> appended # <<>>
     ]_vars

\* C11: two doesMatch calls of a caller with the same grammar and the same
\* string give the same Match/NoMatch verdict, whatever State.counter was
\* at the start of each and whatever was parsed in between.
C11_SameVerdict ==
  \A a, b \in 1..Len(verdicts) :
    verdicts[a].input = verdicts[b].input
      => verdicts[a].isMatch = verdicts[b].isMatch

\* A string was matched, another string was parsed, and the first string
\* was matched again, State.counter having moved on each time.
C11_Witness ==
  /\ Len(verdicts) = 3
  /\ verdicts[1].input = verdicts[3].input
  /\ verdicts[2].input # verdicts[1].input
  /\ verdicts[1].counter0 < verdicts[2].counter0
  /\ verdicts[2].counter0 < verdicts[3].counter0
  /\ verdicts[1].isMatch /\ verdicts[3].isMatch /\ ~verdicts[2].isMatch

\* The number of States in the chart.
NumStates(ctx) ==
  Cardinality(UNION { { <<b, n>> : n \in 1..Len(ctx.states[b]) } :
                      b \in DOMAIN ctx.states })

\* C19 as claimed: everything a later call can observe is after a doesMatch
\* call as it was before it - State.counter is what it was when the call
\* began, and no step of the call changes the Grammar.
C19_NothingShared ==
  /\ [](Returned => counter = counter0)
  /\ [][pc # "build" => grammar' = grammar]_vars

\* C19 amended: no step of a doesMatch call changes the Grammar, but the
\* call leaves State.counter advanced by at least the number of States of
\* its chart (one is constructed at the very start).
C19_CounterAdvances ==
  /\ [](Returned => /\ counter >= counter0 + NumStates(context)
                     /\ counter > counter0)
  /\ [][pc # "build" => grammar' = grammar]_vars

\* A second call has returned, having started from the State.counter the
\* first one left behind.
C19_Witness ==
  /\ Returned /\ parses = 1
  /\ counter0 > 0
  /\ counter > counter0

\* C13: when the chart holds a complete parse doesMatch returns a list -
\* the empty one when the derivation search gave up - and null otherwise;
\* testCFG reports an empty list as Yes without a derivation row, and
\* null as No.
C13_EmptyListIsMatch ==
  /\ Returned => (match.isNull <=> FirstCompleteParse(context) = 0)
  /\ \A n \in 1..Len(results) :
       /\ results[n].matchState = List(<<>>) =>
            results[n].isMatch = "Yes" /\ ~results[n].derivation
       /\ results[n].matchState.isNull => results[n].isMatch = "No"

\* Under S -> SS | 0 the derivation search for 000 has given up, and the
\* results table shows the string as a match.
C13_Witness ==
  /\ pc = "idle"
  /\ \E n \in 1..Len(results) :
       /\ results[n].str = <<"0", "0", "0">>
       /\ results[n].matchState = List(<<>>)
       /\ results[n].isMatch = "Yes"
  /\ rhsContains(grammar.productions["S"], <<NS, NS>>)

\* C15 as claimed: no row of the results table shows a cached result that
\* was computed with a Grammar other than the one testCFG has just read
\* from the rows.
C15_NeverStale ==
  \A n \in 1..Len(results) : results[n].cached => results[n].of = grammar

\* C16 as claimed: an entry that leaves the cache when a result is stored
\* is the one stored earliest of those present.
C16_OldestInsertedEvicted ==
  [][(pc = "done" /\ pc' = "line") =>
       \A str \in DOMAIN cache : str \notin DOMAIN cache' => str = Head(inserted)
    ]_vars

\* C21: an addState call (with a State that could be constructed) at index
\* N + 1 (N the length of the Context's input) returns false, throws nothing and leaves every bucket as it was;
\* a call at a negative index or at an index beyond N + 1 throws
\* StateInputIndexOutOfBounds and leaves every bucket as it was.
C21_IndexOutOfRange ==
  [][(pc = "context" /\ calls' = calls + 1
        /\ ~StateOutOfBounds(call'.state.symArray, call'.state.currentPosition)) =>
       LET index == call'.inputIndex
           N == Len(context.input)
       IN /\ index = N + 1 =>
               /\ context' = context
               /\ ~call'.ret
               /\ error' = "" /\ pc' = "context"
          /\ (index < 0 \/ index > N + 1) =>
               /\ context' = context
               /\ error' = "StateInputIndexOutOfBounds"
               /\ pc' = "context_thrown"
     ]_vars

\* A Context that holds States was offered one more at index N + 2: the
\* call threw, and the States are where they were.
C21_Witness ==
  /\ pc = "context_thrown" /\ error = "StateInputIndexOutOfBounds"
  /\ call.inputIndex = Len(context.input) + 2
  /\ NumStates(context) >= 2

\* C22: asking for a State whose dot is below 0 or beyond the length of its
\* alternative throws StateCurrentPositionOutOfBounds before anything is
\* created - State.counter and the chart stay as they were, the dot is not
\* brought into range - and every State of the chart has its dot between 0
\* and the length of its alternative.
C22_DotInRange ==
  /\ [](\A b \in DOMAIN context.states :
          \A n \in 1..Len(context.states[b]) :
            /\ 0 <= context.states[b][n].currentPosition
            /\ context.states[b][n].currentPosition <= Len(context.states[b][n].symArray))
  /\ [][(pc = "context" /\ calls' = calls + 1
          /\ StateOutOfBounds(call'.state.symArray, call'.state.currentPosition)) =>
           /\ error' = "StateCurrentPositionOutOfBounds"
           /\ pc' = "context_thrown"
           /\ counter' = counter
           /\ context' = context
       ]_vars

\* A complete State of the chart was asked for its advanced State, the dot
\* one beyond its alternative: the constructor threw.
C22_Witness ==
  /\ pc = "context_thrown" /\ error = "StateCurrentPositionOutOfBounds"
  /\ call.state.currentPosition = Len(call.state.symArray) + 1
  /\ call.state.prev # <<>>
  /\ isComplete(Deref(context, call.state.prev[1]))

\* The positions doesMatch has finished: those below i while the main loop
\* runs, all of them after it.
FinishedPositions ==
  IF pc \in {"for_i", "for_j", "while", "for_k", "scan"} THEN 0..(i - 1)
  ELSE IF pc \in {"check", "derive", "done"} THEN DOMAIN context.states
  ELSE {}

\* Bucket b holds a State with this lhs, alternative, dot and origin that
\* has the State at ref among its back-pointers.
HoldsWithPrev(ctx, b, lhs, symArray, currentPosition, originPosition, ref) ==
  \E m \in 1..Len(ctx.states[b]) :
    LET p == ctx.states[b][m] IN
    /\ p.lhs = lhs /\ p.symArray = symArray
    /\ p.currentPosition = currentPosition
    /\ p.originPosition = originPosition
    /\ \E q \in 1..Len(p.prev) : p.prev[q] = ref

\* Bucket b is closed under prediction and completion.
Closed(ctx, g, b) ==
  \A n \in 1..Len(ctx.states[b]) :
    LET s == ctx.states[b][n]
        ref == [b |-> b, s |-> n]
    IN /\ (hasNext(s) /\ ~getNextSymbol(s).isTerminal) =>
            LET X == getNextSymbol(s) IN
            /\ X.ch \in DOMAIN g.productions
            /\ \A a \in 1..Len(g.productions[X.ch].rhs) :
                 HoldsWithPrev(ctx, b, X, g.productions[X.ch].rhs[a], 0, b, ref)
       /\ isComplete(s) =>
            \A l \in 1..Len(ctx.states[s.originPosition]) :
              LET t == ctx.states[s.originPosition][l] IN
              hasNonterminalNext(t, s.lhs) =>
                HoldsWithPrev(ctx, b, t.lhs, t.symArray, t.currentPosition + 1,
                              t.originPosition, ref)

\* C23: every bucket of a position doesMatch has finished is closed: for
\* each of its States with a nonterminal X next and each alternative a of
\* X it holds (X, a, dot 0, origin i) with that State among the
\* back-pointers, and for each of its complete States s and each State t of
\* bucket s.origin (bucket i itself included) with s.lhs next it holds t
\* advanced by one with s among the back-pointers.
C23_BucketClosed ==
  \A b \in FinishedPositions : Closed(context, grammar, b)

\* S -> 0XX, X -> epsilon | 1 on input 0: in bucket 1 the empty X (origin 1)
\* has completed S -> 0.XX and S -> 0X.X of the same bucket, and S -> 0XX.
\* points back to it.
C23_Witness ==
  /\ Returned /\ script = Test2Script /\ Input = <<"0">>
  /\ \E n \in 1..Len(context.states[1]) :
       /\ context.states[1][n].symArray = <<>>
       /\ context.states[1][n].originPosition = 1
       /\ HoldsWithPrev(context, 1, NS, <<T0, NX, NX>>, 2, 0, [b |-> 1, s |-> n])
       /\ HoldsWithPrev(context, 1, NS, <<T0, NX, NX>>, 3, 0, [b |-> 1, s |-> n])

\* C24: while doesMatch runs, a step of a closure pass at position i
\* changes no bucket but i, a scan step from bucket i changes no bucket but
\* i + 1, no step changes a bucket below i, and from the first scan step
\* from bucket i on bucket i stays as it is - no State is added to it and
\* no prev of its States grows; after the main loop the chart is not
\* changed at all.
C24_BucketFinal ==
  [][(pc \in {"for_i", "for_j", "while", "for_k", "scan", "check", "derive"}) =>
       /\ DOMAIN context'.states = DOMAIN context.states
       /\ \A b \in DOMAIN context.states :
            /\ (pc = "for_k" /\ b # i) => context'.states[b] = context.states[b]
            /\ (pc = "scan" /\ b # i + 1) => context'.states[b] = context.states[b]
            /\ (pc \notin {"for_k", "scan"}) => context'.states[b] = context.states[b]
            /\ (b < i) => context'.states[b] = context.states[b]
            /\ (b = i /\ (pc = "scan" \/ j >= 1)) =>
                 context'.states[b] = context.states[b]
    ]_vars

\* A closure pass runs at position i for a later State of the bucket (the
\* first one has been scanned into bucket i + 1) and examines a State that
\* predicts.
C24_Witness ==
  /\ pc = "for_k" /\ j >= 1 /\ i >= 1 /\ i < Len(Input)
  /\ Len(context.states[i + 1]) >= 1
  /\ predicts(Examined)

\* doesMatch is running or has ended.
InDoesMatch ==
  pc \in {"for_i", "for_j", "while", "for_k", "scan", "check", "derive", "done",
          "thrown"}

\* How a State of a doesMatch chart came to be, read off its item: the seed
\* (augmented-start lhs, dot 0), a predicted State (dot 0), a scanned one
\* (a terminal before the dot) or a completed one (a nonterminal before it).
IsSeed(s) == hasStart(s) /\ s.currentPosition = 0
IsPredicted(s) == ~hasStart(s) /\ s.currentPosition = 0
IsScanned(s) == s.currentPosition > 0 /\ s.symArray[s.currentPosition].isTerminal
IsCompleted(s) == s.currentPosition > 0 /\ ~s.symArray[s.currentPosition].isTerminal

\* The States of bucket b that have nonterminal X next.
Predictors(ctx, b, X) ==
  { n \in 1..Len(ctx.states[b]) : hasNonterminalNext(ctx.states[b][n], X) }

\* C25 as claimed: the seed State has no back-pointer, every predicted and
\* every scanned State has exactly one, and no State has more than two.
C25_AtMostTwo ==
  InDoesMatch =>
    \A b \in DOMAIN context.states :
      \A n \in 1..Len(context.states[b]) :
        LET s == context.states[b][n] IN
        /\ IsSeed(s) => Len(s.prev) = 0
        /\ (IsPredicted(s) \/ IsScanned(s)) => Len(s.prev) = 1
        /\ Len(s.prev) <= 2

\* C25 amended: the seed State has no back-pointer; a scanned State has
\* exactly one, into the bucket before its own; a predicted or completed
\* State has at least one, all into its own bucket and none twice; and a
\* predicted State points back to States that have its lhs next - in a
\* finished bucket to every one of them - so that neither one nor two is a
\* limit.
C25_BackPointers ==
  InDoesMatch =>
    \A b \in DOMAIN context.states :
      \A n \in 1..Len(context.states[b]) :
        LET s == context.states[b][n] IN
        /\ IsSeed(s) => Len(s.prev) = 0
        /\ IsScanned(s) => Len(s.prev) = 1 /\ s.prev[1].b = b - 1
        /\ (IsPredicted(s) \/ IsCompleted(s)) =>
             /\ Len(s.prev) >= 1
             /\ \A q \in 1..Len(s.prev) : s.prev[q].b = b
             /\ \A q, r \in 1..Len(s.prev) : s.prev[q] = s.prev[r] => q = r
        /\ IsPredicted(s) =>
             /\ \A q \in 1..Len(s.prev) : s.prev[q].s \in Predictors(context, b, s.lhs)
             /\ b \in FinishedPositions =>
                  Len(s.prev) = Cardinality(Predictors(context, b, s.lhs))

\* Under S -> SS | epsilon a predicted State of a returned call holds three
\* back-pointers: to the seed State, to S -> .SS and to S -> S.S.
C25_Witness ==
  /\ Returned
  /\ \E b \in DOMAIN context.states :
       \E n \in 1..Len(context.states[b]) :
         /\ IsPredicted(context.states[b][n])
         /\ Len(context.states[b][n].prev) >= 3

\* C26 as claimed: every back-pointer of a State of a doesMatch chart
\* refers to a State with a strictly smaller creation id, in the same or an
\* earlier bucket (so that no chain of back-pointers comes back to where it
\* began).
C26_PointsToEarlier ==
  InDoesMatch =>
    \A b \in DOMAIN context.states :
      \A n \in 1..Len(context.states[b]) :
        \A q \in 1..Len(context.states[b][n].prev) :
          LET ref == context.states[b][n].prev[q] IN
          /\ ref.b <= b
          /\ Deref(context, ref).counter < context.states[b][n].counter

\* C26 amended: every back-pointer refers to a State of the same bucket or
\* of the one before it, never of a later one, and the back-pointer a State
\* was created with (its first) refers to a State with a strictly smaller
\* creation id; the back-pointers a merge appended need not.
C26_NeverForward ==
  InDoesMatch =>
    \A b \in DOMAIN context.states :
      \A n \in 1..Len(context.states[b]) :
        LET s == context.states[b][n] IN
        /\ \A q \in 1..Len(s.prev) :
             /\ s.prev[q].b \in {b - 1, b}
             /\ s.prev[q].b \in DOMAIN context.states
             /\ s.prev[q].s \in 1..Len(context.states[s.prev[q].b])
        /\ Len(s.prev) >= 1 => Deref(context, s.prev[1]).counter < s.counter

\* A returned call has left a State that is its own back-pointer, and a
\* State with a back-pointer to a State created after it.
C26_Witness ==
  /\ Returned
  /\ \E b \in DOMAIN context.states :
       \E n \in 1..Len(context.states[b]) :
         \E q \in 1..Len(context.states[b][n].prev) :
           context.states[b][n].prev[q] = [b |-> b, s |-> n]
  /\ \E b \in DOMAIN context.states :
       \E n \in 1..Len(context.states[b]) :
         \E q \in 1..Len(context.states[b][n].prev) :
           Deref(context, context.states[b][n].prev[q]).counter
             > context.states[b][n].counter

\* C27: getDerivation comes to an end on every chart, looped back-pointers
\* or not: its counter (the paths enqueued by the loop) never exceeds
\* DERIVATION_LIMIT + 1 and is at most DERIVATION_LIMIT while the search
\* goes on; every turn of the loop that does not end the search enqueues a
\* path or else leaves the queue shorter; a turn that finds the queue empty
\* or takes the counter beyond the limit returns the empty list; and the
\* empty list is returned for no other reason.
C27_DerivationBounded ==
  /\ [](dcounter <= DERIVATION_LIMIT + 1)
  /\ [](pc = "derive" => dcounter <= DERIVATION_LIMIT)
  /\ [][pc = "derive" =>
          /\ pc' \in {"derive", "done"}
          /\ pc' = "derive" =>
               \/ dcounter' > dcounter
               \/ dcounter' = dcounter /\ Len(queue') < Len(queue)
          /\ (queue = <<>> \/ dcounter' > DERIVATION_LIMIT) =>
               pc' = "done" /\ match' = List(<<>>)
          /\ (pc' = "done" /\ match' = List(<<>>)) =>
               (queue = <<>> \/ dcounter' = DERIVATION_LIMIT + 1)
       ]_vars

\* The search over a chart in which a State is its own back-pointer has
\* given up at the limit: doesMatch returned the empty list.
C27_Witness ==
  /\ Returned /\ match = List(<<>>)
  /\ dcounter = DERIVATION_LIMIT + 1
  /\ \E b \in DOMAIN context.states :
       \E n \in 1..Len(context.states[b]) :
         \E q \in 1..Len(context.states[b][n].prev) :
           context.states[b][n].prev[q] = [b |-> b, s |-> n]

\* No character of the grammar is the ch of a terminal Symbol and of a
\* nonterminal Symbol.
Separated(g) ==
  \A c, d \in DOMAIN g.productions :
    \A n \in 1..Len(g.productions[c].rhs) :
      \A q \in 1..Len(g.productions[c].rhs[n]) :
        LET sym == g.productions[c].rhs[n][q] IN
        sym.isTerminal => sym.ch # d /\ sym.ch # g.startSymbol.ch

\* C28 as claimed: under a grammar in which no character is both a terminal
\* and a nonterminal, getDerivation's queue never runs empty - some path of
\* back-pointers from the complete parse State gives the input - and the
\* empty list is returned only with the counter beyond the limit.
C28_NeverRunsEmpty ==
  Separated(grammar) =>
    /\ pc = "derive" => queue # <<>>
    /\ (Returned /\ match = List(<<>>)) => dcounter = DERIVATION_LIMIT + 1


\* The string getDerivation holds for the path list[1..n].
RECURSIVE PathString(_, _)
PathString(list, n) ==
  IF n = 1 THEN SymArrayToString(list[1].symArray)
  ELSE NewSymString(PathString(list, n - 1), list[n])

\* The index in list of its c-th complete State.
NthComplete(list, c) ==
  CHOOSE n \in 1..Len(list) :
    /\ isComplete(list[n])
    /\ Cardinality({m \in 1..n : isComplete(list[m])}) = c

\* C29 as claimed: for a grammar read from the page and a non-empty
\* derivation, the rows of formatDerivation follow the strings of
\* getDerivation: each row after the first rewrites an occurrence of its
\* left-hand nonterminal, its form is the string getDerivation held at that
\* State, and the form of the last row is the test string.
C29_RowsTrackStrings ==
  (HasDerivation /\ grammar = readGrammar(rows)) =>
    LET shown == formatDerivation(Derivation) IN
    /\ \A n \in 2..Len(shown) :
         /\ LastOccurrence(shown[n - 1].symArray, shown[n].production.lhs) # 0
         /\ SymArrayChars(shown[n].symArray)
              = PathString(Derivation, NthComplete(Derivation, n))
    /\ Chars(shown[Len(shown)].symArray) = Input


\* C30: whatever the production rows hold, readGrammar makes a character of
\* a rule field a nonterminal Symbol exactly when some row with a non-empty
\* nonterminal field has that character there; every rule field is read as
\* an alternative of its row's nonterminal; so the start symbol and every
\* nonterminal Symbol of a right-hand side have a Production, and while
\* testCFG runs no prediction looks up a Production that is missing.
C30_NonterminalsDefined ==
  LET g == readGrammar(rows)
      IsLhs(ch) == \E r \in 1..Len(rows) : rows[r].nt # <<>> /\ rows[r].nt[1] = ch
  IN /\ \A c \in DOMAIN g.productions :
          \A n \in 1..Len(g.productions[c].rhs) :
            \A q \in 1..Len(g.productions[c].rhs[n]) :
              ~g.productions[c].rhs[n][q].isTerminal
                <=> IsLhs(g.productions[c].rhs[n][q].ch)
     /\ \A r \in 1..Len(rows) :
          rows[r].nt # <<>> =>
            /\ rows[r].nt[1] \in DOMAIN g.productions
            /\ \A f \in 1..Len(rows[r].rules) :
                 \E n \in 1..Len(g.productions[rows[r].nt[1]].rhs) :
                   Chars(g.productions[rows[r].nt[1]].rhs[n]) = rows[r].rules[f]
     /\ WellDefined(g)
     /\ (pc # "idle" => grammar = g /\ error = "")
     /\ ((pc = "for_k" /\ predicts(Examined)) =>
           getNextSymbol(Examined).ch \in DOMAIN grammar.productions)

\* A prediction for a nonterminal other than the start symbol, which a
\* later row defines and whose character an earlier row's rule field holds.
C30_Witness ==
  /\ pc = "for_k" /\ predicts(Examined)
  /\ grammar = readGrammar(rows)
  /\ getNextSymbol(Examined).ch # rows[1].nt[1]
  /\ \E r \in 2..Len(rows) :
       /\ rows[r].nt = <<getNextSymbol(Examined).ch>>
       /\ \E f \in 1..Len(rows[1].rules) :
            \E n \in 1..Len(rows[1].rules[f]) :
              rows[1].rules[f][n] = rows[r].nt[1]


\* C31 as claimed: whenever testCFG has processed a string or clearCache has
\* run, the cache holds at most MAX_CACHE_SIZE entries, no string is twice
\* in cacheQueue, and the keys of cache are the strings of cacheQueue; a
\* null result is stored like any other, and a row served from the cache
\* shows null as No.
C31_CacheMatchesQueue ==
  /\ Cardinality(DOMAIN cache) <= MAX_CACHE_SIZE
  /\ \A a \in 1..Len(cacheQueue) : \A b \in 1..Len(cacheQueue) :
       cacheQueue[a] = cacheQueue[b] => a = b
  /\ DOMAIN cache = { cacheQueue[n] : n \in 1..Len(cacheQueue) }
  /\ \A n \in 1..Len(results) :
       (results[n].cached /\ results[n].matchState.isNull) =>
         results[n].isMatch = "No"
  /\ (pc = "line" /\ line >= 1 /\ ~results[Len(results)].cached) =>
       /\ text[line] \in DOMAIN cache
       /\ cache[text[line]].result = results[Len(results)].matchState

============================================================================
